---------------------------- MODULE Spec2Model ----------------------------
(***************************************************************************)
(* A model of the OWASPbot DAST suite: the DASTReporter of                 *)
(* dast/utils/helpers.ts, the authentication gate of dast/auth.setup.ts,   *)
(* the scan run of scripts/run-dast.sh with playwright.config.ts, and the  *)
(* path-traversal probe of dast/tests/06-path-traversal.spec.ts.           *)
(*                                                                         *)
(* JavaScript objects and arrays are references.  A Finding object lives   *)
(* in heap (its index is its reference) and the reporter's private array   *)
(* this.findings is a sequence of references.                              *)
(***************************************************************************)
EXTENDS Integers, Sequences, FiniteSets, Bags, TLC

VARIABLES
    heap,       \* the Finding objects allocated so far: reference -> Finding
    findings,   \* DASTReporter.findings: the references it holds, in order
    ret,        \* what the last call on the reporter returned to its caller
    lastGet,    \* history: the Findings the last getFindings() returned
    hist,       \* history: the calls made since the last addFinding
    writes,     \* history: how often the caller wrote to what it was handed
    fileExists, \* existsSync('dast/.auth/user.json')
    mtimeMs,    \* statSync(authFile).mtimeMs
    now,        \* Date.now()
    skipAuth,   \* SKIP_AUTH of run-dast
    pc,         \* where the scan run is
    gate,       \* what the setup project's gate reported in this run
    gateIn,     \* history: what the gate read when it was evaluated
    gateEvals,  \* history: how often the gate was evaluated in this run
    urlIdx,     \* path-traversal probe: index of baseUrl in testUrls
    payIdx,     \* path-traversal probe: index of payload in the slice
    requests,   \* history: the URLs handed to request.get, in order
    hits,       \* history: the requests whose response met the oracle, each
                \* with its URL and the patterns the body matched; in a race
                \* probe, per endpoint, how many requests ended in which way
    step,       \* the number of passes the running probe has made of its loop
    last,       \* history: the last pass: what was sent, what came back, and
                \* the length of the reporter's collection before it
    page,       \* page.url() of the running test
    inflight,   \* the requests sent and not yet completed, per endpoint
    burst,      \* the Promise.all the running test awaits
    runner,     \* the script that runs the scan: run-dast.sh or run-dast.ps1
    exit,       \* what the script printed and the status it exited with
    authCmd,    \* what the last auth or clear command did
    zap,        \* the run-zap script: its command, its environment and
                \* its variable SCAN_ID
    repos       \* the fetch-repos script: the credentials entered and, for
                \* each repository, the origin URL in its configuration

reporterVars == <<heap, findings, ret, lastGet, hist, writes>>
scanVars == <<fileExists, mtimeMs, now, skipAuth, pc, gate, gateIn, gateEvals,
              urlIdx, payIdx, requests, hits>>
probeVars == <<step, last, page, inflight, burst>>
cliVars == <<runner, exit, authCmd, zap, repos>>
vars == <<heap, findings, ret, lastGet, hist, writes, fileExists, mtimeMs, now,
          skipAuth, pc, gate, gateIn, gateEvals, urlIdx, payIdx, requests, hits,
          step, last, page, inflight, burst, runner, exit, authCmd,
          zap, repos>>

-----------------------------------------------------------------------------
(* Bounds of the model *)

\* addFinding is called at most this many times on one reporter
MaxFindings == 3

\* the caller writes at most this often to an array or object it was handed
MaxCallerWrites == 2

\* the probe walks the first MaxUrls entries of its testUrls
MaxUrls == 2

\* pathTraversalPayloads holds this many payloads
MaxPayloads == 2

\* a probe walks the first MaxEndpoints entries of its list of endpoints
MaxEndpoints == 1

\* context.cookies() holds at most this many cookies
MaxCookies == 2

\* a race probe walks the first MaxRaceEndpoints entries of its endpoints
MaxRaceEndpoints == 2

\* the auth command is followed for this many runs and advances of the clock
MaxAuthSteps == 3

\* a polling loop of run-zap is followed for this many polls
MaxPolls == 2

-----------------------------------------------------------------------------
(* Finding and DASTReporter *)

\* Finding['severity'], in the order generateSummary lists them
Severities == <<"critical", "high", "medium", "low", "info">>

Severity == {Severities[i] : i \in DOMAIN Severities}

\* The Findings a caller of the reporter builds.  cwe is optional: "" is absent.
CallerFindings ==
    [severity : Severity, title : {"t"}, url : {<<"/">>}, payload : {<<>>},
     cwe : {""}, evidence : {0}]

Range(s) == {s[i] : i \in DOMAIN s}

\* the Finding objects a sequence of references points at, in heap h
DerefIn(h, refs) == [i \in DOMAIN refs |-> h[refs[i]]]

\* the Finding objects a sequence of references points at
Deref(refs) == DerefIn(heap, refs)

\* What no call has returned yet, and what addFinding returns (undefined)
NoRet == [op |-> "none", arg |-> 0, sev |-> "", arr |-> <<>>,
          alias |-> FALSE, bool |-> FALSE, summary |-> <<>>]

\* getFindings(): the array this.findings itself, not a copy
getFindings == findings

\* position of a severity in the triage order, 1 the most severe
SeverityRank(severity) ==
    CHOOSE k \in DOMAIN Severities : Severities[k] = severity

\* a filter by threshold ("this severity or above") instead of by equality
getFindingsBySeverity_orAbove(severity) ==
    SelectSeq(findings, LAMBDA r :
        SeverityRank(heap[r].severity) <= SeverityRank(severity))

\* getFindingsBySeverity(severity): Array.prototype.filter builds a new array
\* of the references whose Finding has that severity
getFindingsBySeverity(severity) ==
    SelectSeq(findings, LAMBDA r : heap[r].severity = severity)

\* a test for more than one entry
hasFindings_moreThanOne == Len(findings) > 1

\* hasFindings()
hasFindings == Len(findings) > 0

\* a summary whose Medium and Low lines carry each other's count
generateSummary_swapped ==
    LET critical == Len(getFindingsBySeverity("critical"))
        high == Len(getFindingsBySeverity("high"))
        medium == Len(getFindingsBySeverity("low"))
        low == Len(getFindingsBySeverity("medium"))
        info == Len(getFindingsBySeverity("info"))
    IN  << [label |-> "Critical", count |-> critical],
           [label |-> "High", count |-> high],
           [label |-> "Medium", count |-> medium],
           [label |-> "Low", count |-> low],
           [label |-> "Info", count |-> info],
           [label |-> "Total", count |-> Len(findings)] >>

\* generateSummary(): the count lines of the template string, in its order
generateSummary ==
    LET critical == Len(getFindingsBySeverity("critical"))
        high == Len(getFindingsBySeverity("high"))
        medium == Len(getFindingsBySeverity("medium"))
        low == Len(getFindingsBySeverity("low"))
        info == Len(getFindingsBySeverity("info"))
    IN  << [label |-> "Critical", count |-> critical],
           [label |-> "High", count |-> high],
           [label |-> "Medium", count |-> medium],
           [label |-> "Low", count |-> low],
           [label |-> "Info", count |-> info],
           [label |-> "Total", count |-> Len(findings)] >>

\* a push that skips an object the array already holds
Push_dedup(arr, ref) == IF ref \in Range(arr) THEN arr ELSE Append(arr, ref)

\* an unshift: the new entry goes to the front
Push_front(arr, ref) == <<ref>> \o arr

\* this.findings.push(finding): the array after the push
Push(arr, ref) == Append(arr, ref)

\* how the history of calls moves on a query other than getFindings
HistQuery == IF hist = "dirty" THEN "dirty" ELSE "gotQ"

\* addFinding(finding) with a Finding object the caller has just built
AddFinding(f) ==
    /\ Len(findings) < MaxFindings
    /\ Len(heap) < MaxFindings
    /\ heap' = Append(heap, f)
    /\ findings' = Push(findings, Len(heap) + 1)
    /\ ret' = [NoRet EXCEPT !.op = "addFinding", !.arg = Len(heap) + 1]
    /\ hist' = "dirty"
    /\ UNCHANGED <<lastGet, writes>>

\* addFinding(finding) with an object that was passed to addFinding before
AddFindingAgain(ref) ==
    /\ Len(findings) < MaxFindings
    /\ ref \in DOMAIN heap
    /\ findings' = Push(findings, ref)
    /\ ret' = [NoRet EXCEPT !.op = "addFinding", !.arg = ref]
    /\ hist' = "dirty"
    /\ UNCHANGED <<heap, lastGet, writes>>

GetFindings ==
    /\ ret' = [NoRet EXCEPT !.op = "getFindings", !.arr = getFindings,
                            !.alias = TRUE]
    /\ lastGet' = Deref(getFindings)
    /\ hist' = IF hist = "gotQ" THEN "gotQgot" ELSE "got"
    /\ UNCHANGED <<heap, findings, writes>>

\* a filter that also removes what it returns from this.findings
GetFindingsBySeverity_take(severity) ==
    /\ ret' = [NoRet EXCEPT !.op = "getFindingsBySeverity", !.sev = severity,
                            !.arr = getFindingsBySeverity(severity)]
    /\ findings' = SelectSeq(findings, LAMBDA r : heap[r].severity # severity)
    /\ hist' = HistQuery
    /\ UNCHANGED <<heap, lastGet, writes>>

GetFindingsBySeverity(severity) ==
    /\ ret' = [NoRet EXCEPT !.op = "getFindingsBySeverity", !.sev = severity,
                            !.arr = getFindingsBySeverity(severity)]
    /\ hist' = HistQuery
    /\ UNCHANGED <<heap, findings, lastGet, writes>>

HasFindings ==
    /\ ret' = [NoRet EXCEPT !.op = "hasFindings", !.bool = hasFindings]
    /\ hist' = HistQuery
    /\ UNCHANGED <<heap, findings, lastGet, writes>>

GenerateSummary ==
    /\ ret' = [NoRet EXCEPT !.op = "generateSummary",
                            !.summary = generateSummary]
    /\ hist' = HistQuery
    /\ UNCHANGED <<heap, findings, lastGet, writes>>

-----------------------------------------------------------------------------
(* What the caller can do with what the reporter handed out *)

\* the held array is one a call returned and the caller still has
HoldsArray == ret.op \in {"getFindings", "getFindingsBySeverity"}

\* The caller writes to the array it holds (push of an object it knows, or
\* pop).  The array getFindings() returned is this.findings itself; the one
\* getFindingsBySeverity() returned is the caller's own.
CallerWritesArray(arr) ==
    /\ HoldsArray
    /\ writes < MaxCallerWrites
    /\ writes' = writes + 1
    /\ ret' = [ret EXCEPT !.arr = arr]
    /\ findings' = IF ret.alias THEN arr ELSE findings
    /\ hist' = "mutated"
    /\ UNCHANGED <<heap, lastGet>>

CallerPush(ref) ==
    /\ Len(ret.arr) < MaxFindings
    /\ CallerWritesArray(Append(ret.arr, ref))

CallerPop ==
    /\ Len(ret.arr) > 0
    /\ CallerWritesArray(SubSeq(ret.arr, 1, Len(ret.arr) - 1))

\* The caller assigns to a field of a Finding object it passed to addFinding
\* or found in a returned array: the object is the one the reporter holds.
CallerSetsSeverity(ref, severity) ==
    /\ ref \in DOMAIN heap
    /\ heap[ref].severity # severity
    /\ writes < MaxCallerWrites
    /\ writes' = writes + 1
    /\ heap' = [heap EXCEPT ![ref].severity = severity]
    /\ hist' = "mutated"
    /\ UNCHANGED <<findings, ret, lastGet>>

-----------------------------------------------------------------------------
(* Initial states *)

InitReporter ==
    /\ heap = <<>>
    /\ findings = <<>>
    /\ ret = NoRet
    /\ lastGet = <<>>
    /\ hist = "dirty"
    /\ writes = 0

InitNoScan ==
    /\ fileExists = FALSE
    /\ mtimeMs = 0
    /\ now = 0
    /\ skipAuth = FALSE
    /\ pc = "idle"
    /\ gate = "none"
    /\ gateIn = [exists |-> FALSE, age |-> 0]
    /\ gateEvals = 0
    /\ urlIdx = 1
    /\ payIdx = 1
    /\ requests = <<>>
    /\ hits = <<>>

\* no pass of a probe yet
NoLast == [kind |-> "none"]

\* no Promise.all awaited
NoBurst == [test |-> "none", endpoint |-> 0, size |-> 0, fulfilled |-> 0,
            ok |-> 0, rejected |-> FALSE]

\* the script has not exited
NoExit == [status |-> 0 - 1, printed |-> <<>>, report |-> <<>>]

InitNoProbe ==
    /\ step = 0
    /\ last = NoLast
    /\ page = <<>>
    /\ inflight = <<>>
    /\ burst = NoBurst

\* run-zap is not running
NoZap == [cmd |-> "none", openapi |-> FALSE, scanId |-> "", reached |-> {}]

\* fetch-repos is not running
NoRepos == [auth |-> [on |-> FALSE, username |-> "", password |-> ""],
            origin |-> <<>>]

InitNoCli ==
    /\ runner = "sh"
    /\ exit = NoExit
    /\ authCmd = "none"
    /\ zap = NoZap
    /\ repos = NoRepos

-----------------------------------------------------------------------------
(* A reporter and the calls of its interface *)

InitR == InitReporter /\ InitNoScan /\ InitNoProbe /\ InitNoCli

NextR ==
    \/ \E f \in CallerFindings : AddFinding(f) /\ UNCHANGED <<scanVars, probeVars, cliVars>>
    \/ \E ref \in DOMAIN heap : AddFindingAgain(ref) /\ UNCHANGED <<scanVars, probeVars, cliVars>>
    \/ GetFindings /\ UNCHANGED <<scanVars, probeVars, cliVars>>
    \/ \E s \in Severity : GetFindingsBySeverity(s) /\ UNCHANGED <<scanVars, probeVars, cliVars>>
    \/ HasFindings /\ UNCHANGED <<scanVars, probeVars, cliVars>>
    \/ GenerateSummary /\ UNCHANGED <<scanVars, probeVars, cliVars>>

SpecReporter == InitR /\ [][NextR]_vars

-----------------------------------------------------------------------------
(* A reporter with a caller that also writes to what it was handed *)

NextCaller ==
    \/ NextR
    \/ \E ref \in DOMAIN heap : CallerPush(ref) /\ UNCHANGED <<scanVars, probeVars, cliVars>>
    \/ CallerPop /\ UNCHANGED <<scanVars, probeVars, cliVars>>
    \/ \E ref \in DOMAIN heap, s \in {"critical", "info"} :
          CallerSetsSeverity(ref, s) /\ UNCHANGED <<scanVars, probeVars, cliVars>>

SpecCaller == InitR /\ [][NextCaller]_vars

-----------------------------------------------------------------------------
(* The authentication gate: dast/auth.setup.ts *)

authExpiryMs == 60 * 60 * 1000

\* The snapshot ages the model starts from, Date.now() - mtimeMs in ms: a
\* file stamped in the future, 59 minutes, one ms short of the hour, the
\* hour, one ms past it, 61 minutes.
Ages == {0 - 1000, 59 * 60000, 3599999, 3600000, 3600001, 61 * 60000}

\* a gate that lets a file of exactly authExpiryMs pass
AuthGate_strictlyOlder(exists, fileAge) ==
    IF ~exists THEN "No authentication found"
    ELSE IF fileAge > authExpiryMs THEN "Authentication expired"
    ELSE "passed"

\* The setup test: the Error it throws, or "passed" when it returns
AuthGate(exists, fileAge) ==
    IF ~exists THEN "No authentication found"
    ELSE IF fileAge >= authExpiryMs THEN "Authentication expired"
    ELSE "passed"

-----------------------------------------------------------------------------
(* Strings: a string is a sequence of tokens, concatenation is \o *)

\* encodeURIComponent of one token: the unreserved characters stay, the
\* others become their percent escapes
EncodeToken(t) ==
    CASE t = "/" -> "%2F"
      [] t = "\\" -> "%5C"
      [] t = "%" -> "%25"
      [] OTHER -> t

encodeURIComponent(str) == [i \in DOMAIN str |-> EncodeToken(str[i])]

\* Array.prototype.slice(from, to) with 0 <= from
Slice(arr, from, to) ==
    SubSeq(arr, from + 1, IF to < Len(arr) THEN to ELSE Len(arr))

-----------------------------------------------------------------------------
(* The path-traversal probe: dast/tests/06-path-traversal.spec.ts *)

AllTestUrls ==
    << <<"/?file=">>, <<"/?path=">>, <<"/?page=">>, <<"/?template=">>,
       <<"/?include=">>, <<"/?load=">>, <<"/?read=">>, <<"/?doc=">>,
       <<"/?document=">>, <<"/?resource=">>, <<"/download?file=">>,
       <<"/static?path=">>, <<"/api/files?name=">> >>

testUrls == SubSeq(AllTestUrls, 1, MaxUrls)

\* payloads of the kind fixtures/payloads holds
PayloadPool ==
    << <<"..", "/", "..", "/", "etc", "/", "passwd">>,
       <<"..", "\\", "..", "\\", "windows", "\\", "win.ini">>,
       <<"%", "2e", "%", "2e", "%", "2f", "etc", "%", "2f", "passwd">>,
       <<"....", "/", "/", "....", "/", "/", "etc", "/", "passwd">> >>

pathTraversalPayloads == SubSeq(PayloadPool, 1, MaxPayloads)

\* sensitiveFilePatterns, by position: 1 /root:x:0:0:/, 2 /daemon:x:1:1:/,
\* 3 /nobody:x:/, 4 /\[boot loader\]/i, 5 /\[operating systems\]/i,
\* 6 /<?xml/i, 7 /<configuration>/i, 8 /<connectionStrings>/i, 9 /DEBUG/i,
\* 10 /LOG/
sensitiveFilePatterns == 1..10

\* Response bodies, each with the patterns whose test() it passes: the empty
\* body, a page with none, the first two lines of /etc/passwd (root:x:0:0:
\* and daemon:x:1:1:), a text with LOG in it.
Bodies ==
    { [length |-> 0, matches |-> {}],
      [length |-> 5, matches |-> {}],
      [length |-> 27, matches |-> {1, 2}],
      [length |-> 3, matches |-> {10}] }

\* What request.get and response.text() can give: a rejected request (timeout,
\* refused connection), or a status with a body; a body that cannot be read
\* reads as '' (the .catch on response.text())
Responses ==
    {[kind |-> "throw", status |-> 0, body |-> [length |-> 0, matches |-> {}]]}
    \cup [kind : {"response"}, status : {200, 404}, body : Bodies]

\* pattern.test(body)
PatternTest(pattern, body) == pattern \in body.matches

PathTraversalFinding(testUrl, payload, pattern) ==
    [severity |-> "critical", title |-> "Path Traversal Vulnerability",
     url |-> testUrl, payload |-> payload, cwe |-> "CWE-22",
     evidence |-> pattern]

\* the loop over the patterns without its break
RECURSIVE PatternLoop_noBreak(_, _, _, _)
PatternLoop_noBreak(k, body, testUrl, payload) ==
    IF k \notin sensitiveFilePatterns THEN <<>>
    ELSE IF PatternTest(k, body)
         THEN <<PathTraversalFinding(testUrl, payload, k)>>
                \o PatternLoop_noBreak(k + 1, body, testUrl, payload)
         ELSE PatternLoop_noBreak(k + 1, body, testUrl, payload)

\* for (const pattern of sensitiveFilePatterns) from pattern k on: the
\* Findings it hands to reporter.addFinding
RECURSIVE PatternLoop(_, _, _, _)
PatternLoop(k, body, testUrl, payload) ==
    IF k \notin sensitiveFilePatterns THEN <<>>
    ELSE IF PatternTest(k, body)
         THEN <<PathTraversalFinding(testUrl, payload, k)>>
         ELSE PatternLoop(k + 1, body, testUrl, payload)

\* the body of the try block: the Findings one request leads to
ProbeFindings(resp, testUrl, payload) ==
    IF resp.kind = "throw" THEN <<>>
    ELSE IF resp.status = 200 /\ resp.body.length > 0
         THEN PatternLoop(1, resp.body, testUrl, payload)
         ELSE <<>>

\* reporter.addFinding for each of fs in turn, from the probe
RECURSIVE PushAll(_, _, _)
PushAll(arr, first, n) ==
    IF n = 0 THEN arr ELSE PushAll(Push(arr, first), first + 1, n - 1)

AddFromProbe(fs) ==
    /\ heap' = heap \o fs
    /\ findings' = PushAll(findings, Len(heap) + 1, Len(fs))
    /\ ret' = IF fs = <<>> THEN ret
              ELSE [NoRet EXCEPT !.op = "addFinding", !.arg = Len(heap')]
    /\ hist' = IF fs = <<>> THEN hist ELSE "dirty"
    /\ UNCHANGED <<lastGet, writes>>

\* the response meets the oracle the probe is meant to apply
OracleMet(resp) ==
    /\ resp.kind = "response"
    /\ resp.status = 200
    /\ resp.body.length > 0
    /\ resp.body.matches # {}

-----------------------------------------------------------------------------
(* A scan run: scripts/run-dast.sh scan, playwright.config.ts *)

\* playwright.config.ts: retries
retries == 0

\* do_scan: prints the target and the auth line, then runs the test projects;
\* project dast depends on project setup, so setup runs first.  SKIP_AUTH and
\* the presence of the snapshot only select the auth line that is printed.
StartScan ==
    /\ pc = "idle"
    /\ pc' = "setup"
    /\ UNCHANGED <<fileExists, mtimeMs, now, skipAuth, gate, gateIn, gateEvals,
                   urlIdx, payIdx, requests, hits>>
    /\ UNCHANGED <<reporterVars, probeVars, cliVars>>

\* a setup project the dast project does not depend on: dast runs whatever
\* the gate reported
VerifyAuthenticationState_noDependency ==
    /\ pc = "setup"
    /\ LET fileAge == now - mtimeMs
           outcome == AuthGate(fileExists, fileAge)
       IN  /\ gate' = outcome
           /\ gateIn' = [exists |-> fileExists, age |-> fileAge]
           /\ gateEvals' = gateEvals + 1
           /\ pc' = "dast"
    /\ UNCHANGED <<fileExists, mtimeMs, now, skipAuth, urlIdx, payIdx,
                   requests, hits>>
    /\ UNCHANGED <<reporterVars, probeVars, cliVars>>

\* project setup: the test 'Verify authentication state'.  A failed test is
\* run again while retries are left; when setup fails, the projects that
\* depend on it do not run.
VerifyAuthenticationState ==
    /\ pc = "setup"
    /\ LET fileAge == now - mtimeMs
           outcome == AuthGate(fileExists, fileAge)
       IN  /\ gate' = outcome
           /\ gateIn' = [exists |-> fileExists, age |-> fileAge]
           /\ gateEvals' = gateEvals + 1
           /\ pc' = IF outcome = "passed" THEN "dast"
                    ELSE IF gateEvals < retries THEN "setup"
                    ELSE "failed"
    /\ UNCHANGED <<fileExists, mtimeMs, now, skipAuth, urlIdx, payIdx,
                   requests, hits>>
    /\ UNCHANGED <<reporterVars, probeVars, cliVars>>

\* project dast, test 'Check for path traversal in URL parameters': one pass
\* of the inner loop, with the response the target gives
PathTraversalRequest(resp) ==
    /\ pc = "dast"
    /\ LET payloads == Slice(pathTraversalPayloads, 0, 5)
           payload == payloads[payIdx]
           testUrl == testUrls[urlIdx] \o encodeURIComponent(payload)
           lastPayload == payIdx = Len(payloads)
       IN  /\ requests' = Append(requests, testUrl)
           /\ hits' = IF OracleMet(resp)
                      THEN Append(hits, [url |-> testUrl,
                                         matches |-> resp.body.matches])
                      ELSE hits
           /\ AddFromProbe(ProbeFindings(resp, testUrl, payload))
           /\ payIdx' = IF lastPayload THEN 1 ELSE payIdx + 1
           /\ urlIdx' = IF lastPayload THEN urlIdx + 1 ELSE urlIdx
           /\ pc' = IF lastPayload /\ urlIdx = Len(testUrls)
                    THEN "done" ELSE "dast"
    /\ UNCHANGED <<fileExists, mtimeMs, now, skipAuth, gate, gateIn, gateEvals>>
    /\ UNCHANGED <<probeVars, cliVars>>

-----------------------------------------------------------------------------
(* The end of a scan: the reporters of playwright.config.ts and the tail of
   do_scan (run-dast.sh) and Invoke-Scan (run-dast.ps1) *)

Runners == {"sh", "ps1"}

\* the if / elif / else that prints the auth line
AuthLine(skip, exists) ==
    IF skip THEN "Auth: Skipped (SKIP_AUTH=true)"
    ELSE IF exists THEN "Auth: Using stored credentials"
    ELSE "Auth: Not found - will prompt for login"

ScanHead(skip, exists) ==
    <<"=== DAST Security Scan ===", AuthLine(skip, exists),
      "Running DAST tests...">>

ScanTail ==
    <<"=== DAST Scan Complete ===", "View report: npm run dast:report",
      "Report location: reports/dast-report/index.html">>

\* What the html, json and list reporters are given: the result of each test
\* that ran, with what the test wrote to stdout and what it attached.  The
\* setup test logs one line when it passes; the probes neither log nor attach.
TestResults(gateOutcome, probesRan) ==
    << [title |-> "Verify authentication state",
        status |-> IF gateOutcome = "passed" THEN "passed" ELSE "failed",
        stdout |-> IF gateOutcome = "passed"
                   THEN <<"Using stored authentication">> ELSE <<>>,
        attachments |-> <<>>] >>
    \o (IF probesRan
        THEN << [title |-> "Check for path traversal in URL parameters",
                 status |-> "passed", stdout |-> <<>>,
                 attachments |-> <<>>] >>
        ELSE <<>>)

\* a test run that also fails when a reporter holds a Finding
NpmRunDast_failOnFindings(results, found) ==
    IF found \/ \E i \in DOMAIN results : results[i].status = "failed"
    THEN 1 ELSE 0

\* the exit status of npm run dast: playwright test exits 1 when a test
\* failed; whether a reporter holds a Finding plays no part, no test asserts
\* on it
NpmRunDast(results, found) ==
    IF \E i \in DOMAIN results : results[i].status = "failed" THEN 1 ELSE 0

\* The tail of the script once the test run is over.  Under set -e the shell
\* script exits with the status of a failed npm run and prints nothing more;
\* the PowerShell script goes on after a failed native command, prints the
\* tail and ends with status 0.
ScanExits ==
    /\ pc \in {"done", "failed"}
    /\ exit = NoExit
    /\ LET results == TestResults(gate, pc = "done")
           npm == NpmRunDast(results, hasFindings)
           head == ScanHead(skipAuth, fileExists)
       IN  exit' = [status |-> IF runner = "sh" THEN npm ELSE 0,
                    printed |-> IF runner = "sh" /\ npm # 0 THEN head
                                ELSE head \o ScanTail,
                    report |-> results]
    /\ UNCHANGED <<scanVars, reporterVars, probeVars, runner, authCmd, zap,
                   repos>>

InitScan ==
    /\ InitReporter
    /\ fileExists \in BOOLEAN
    /\ mtimeMs = 1000
    /\ now \in {mtimeMs + a : a \in Ages}
    /\ skipAuth \in BOOLEAN
    /\ pc = "idle"
    /\ gate = "none"
    /\ gateIn = [exists |-> FALSE, age |-> 0]
    /\ gateEvals = 0
    /\ urlIdx = 1
    /\ payIdx = 1
    /\ requests = <<>>
    /\ hits = <<>>
    /\ InitNoProbe
    /\ runner \in Runners
    /\ exit = NoExit
    /\ authCmd = "none"
    /\ zap = NoZap
    /\ repos = NoRepos

NextScan ==
    \/ StartScan
    \/ VerifyAuthenticationState
    \/ \E resp \in Responses : PathTraversalRequest(resp)
    \/ ScanExits

SpecScan == InitScan /\ [][NextScan]_vars

-----------------------------------------------------------------------------
(* The CORS probe: dast/tests (CORS Misconfiguration Tests), test 'Check for
   overly permissive CORS' *)

testOrigins ==
    << <<"https://evil.com">>, <<"https://attacker.com">>, <<"https://null">>,
       <<"null">> >>

AllSensitiveEndpoints ==
    << <<"/">>, <<"/api">>, <<"/api/user">>, <<"/api/users">>,
       <<"/api/session">>, <<"/api/account">> >>

sensitiveEndpoints == SubSeq(AllSensitiveEndpoints, 1, MaxEndpoints)

\* a header the response does not carry reads as undefined
undefined == <<"undefined">>

\* What request.get can give for a request with this Origin: a rejected
\* request, or a response whose Access-Control-Allow-Origin is absent, the
\* wildcard, the literal null, the request's Origin or another origin, and
\* whose Access-Control-Allow-Credentials is absent or true
CorsResponses(origin) ==
    {[kind |-> "throw", acao |-> undefined, acac |-> undefined]}
    \cup [kind : {"response"},
          acao : {undefined, <<"*">>, <<"null">>, origin,
                  <<"https://trusted.example">>},
          acac : {undefined, <<"true">>}]

OverlyPermissiveCors(endpoint) ==
    [severity |-> "high", title |-> "Overly Permissive CORS",
     url |-> endpoint, payload |-> <<>>, cwe |-> "CWE-942",
     evidence |-> <<"Access-Control-Allow-Origin: ", "*">>]

ArbitraryOriginWithCredentials(endpoint, origin, acao, acac) ==
    [severity |-> "critical",
     title |-> "CORS Allows Arbitrary Origin with Credentials",
     url |-> endpoint, payload |-> <<>>, cwe |-> "CWE-942",
     evidence |-> <<"Origin: ">> \o origin \o <<", ACAO: ">> \o acao
                  \o <<", ACAC: ">> \o acac]

NullOrigin(endpoint) ==
    [severity |-> "high", title |-> "CORS Allows Null Origin",
     url |-> endpoint, payload |-> <<>>, cwe |-> "CWE-942",
     evidence |-> <<"Access-Control-Allow-Origin: ", "null">>]

\* the three ifs, the second with any credentialed response taken as a
\* reflection of the origin
CorsFindings_anyCredentialed(resp, endpoint, origin) ==
    IF resp.kind = "throw" THEN <<>>
    ELSE (IF resp.acao = <<"*">> THEN <<OverlyPermissiveCors(endpoint)>>
          ELSE <<>>)
         \o (IF resp.acac = <<"true">>
             THEN <<ArbitraryOriginWithCredentials(endpoint, origin,
                                                   resp.acao, resp.acac)>>
             ELSE <<>>)
         \o (IF resp.acao = <<"null">> THEN <<NullOrigin(endpoint)>>
             ELSE <<>>)

\* the body of the try block: the Findings one response leads to, in order
CorsFindings(resp, endpoint, origin) ==
    IF resp.kind = "throw" THEN <<>>
    ELSE (IF resp.acao = <<"*">> THEN <<OverlyPermissiveCors(endpoint)>>
          ELSE <<>>)
         \o (IF resp.acao = origin /\ resp.acac = <<"true">>
             THEN <<ArbitraryOriginWithCredentials(endpoint, origin,
                                                   resp.acao, resp.acac)>>
             ELSE <<>>)
         \o (IF resp.acao = <<"null">> THEN <<NullOrigin(endpoint)>>
             ELSE <<>>)

\* one pass of the inner loop, with the response the target gives
CorsRequest(resp) ==
    /\ pc = "cors"
    /\ LET endpoint == sensitiveEndpoints[urlIdx]
           origin == testOrigins[payIdx]
           lastOrigin == payIdx = Len(testOrigins)
       IN  /\ resp \in CorsResponses(origin)
           /\ last' = [kind |-> "cors", endpoint |-> endpoint,
                       origin |-> origin, resp |-> resp,
                       before |-> Len(findings)]
           /\ AddFromProbe(CorsFindings(resp, endpoint, origin))
           /\ payIdx' = IF lastOrigin THEN 1 ELSE payIdx + 1
           /\ urlIdx' = IF lastOrigin THEN urlIdx + 1 ELSE urlIdx
           /\ pc' = IF lastOrigin /\ urlIdx = Len(sensitiveEndpoints)
                    THEN "done" ELSE "cors"
    /\ UNCHANGED <<fileExists, mtimeMs, now, skipAuth, gate, gateIn, gateEvals,
                   requests, hits>>
    /\ UNCHANGED <<step, page, inflight, burst, cliVars>>

\* the test starts with an empty reporter: the module's const reporter
InitProbe(test) ==
    /\ InitReporter
    /\ fileExists = FALSE
    /\ mtimeMs = 0
    /\ now = 0
    /\ skipAuth = FALSE
    /\ pc = test
    /\ gate = "none"
    /\ gateIn = [exists |-> FALSE, age |-> 0]
    /\ gateEvals = 0
    /\ urlIdx = 1
    /\ payIdx = 1
    /\ requests = <<>>
    /\ hits = <<>>
    /\ InitNoProbe
    /\ InitNoCli

InitCors == InitProbe("cors")

NextCors ==
    \E origin \in Range(testOrigins) :
        \E resp \in CorsResponses(origin) : CorsRequest(resp)

SpecCors == InitCors /\ [][NextCors]_vars

-----------------------------------------------------------------------------
(* The cookie probe: dast/tests/03-security-headers.spec.ts, test 'Check
   cookie security flags' *)

\* String.prototype.toLowerCase, token by token
LowerToken(t) ==
    CASE t = "Session" -> "session"
      [] t = "AUTH" -> "auth"
      [] t = "Token" -> "token"
      [] OTHER -> t

toLowerCase(str) == [i \in DOMAIN str |-> LowerToken(str[i])]

\* String.prototype.includes for a needle that is one token
includes(str, needle) == \E i \in DOMAIN str : str[i] = needle

\* String.prototype.startsWith for a prefix that is one token
startsWith(str, prefix) == Len(str) > 0 /\ str[1] = prefix

\* Array.prototype.join
RECURSIVE join(_, _)
join(arr, sep) ==
    IF Len(arr) = 0 THEN <<>>
    ELSE IF Len(arr) = 1 THEN <<arr[1]>>
    ELSE <<arr[1], sep>> \o join(Tail(arr), sep)

\* what page.url() can be after page.goto('/')
PageUrls == {<<"https://", "target.example", "/">>,
             <<"http://", "localhost:3000", "/">>}

CookieNames == {<<"session", "_id">>, <<"theme">>, <<"X-", "AUTH", "-", "Token">>}

\* the cookies context.cookies() can hold
Cookies ==
    [name : CookieNames, secure : BOOLEAN, httpOnly : BOOLEAN,
     sameSite : {undefined, <<"Strict">>, <<"Lax">>, <<"None">>}]

\* the name checks of the HttpOnly test
SensitiveName(name) ==
    \/ includes(toLowerCase(name), "session")
    \/ includes(toLowerCase(name), "token")
    \/ includes(toLowerCase(name), "auth")

\* the issues, with the HttpOnly check made on every cookie
CookieIssues_anyName(cookie, url) ==
    (IF ~cookie.secure /\ startsWith(url, "https://")
     THEN <<"Missing Secure flag">> ELSE <<>>)
    \o (IF ~cookie.httpOnly
        THEN <<"Missing HttpOnly flag on sensitive cookie">> ELSE <<>>)
    \o (IF cookie.sameSite = undefined \/ cookie.sameSite = <<"None">>
        THEN <<"Missing or lax SameSite attribute">> ELSE <<>>)

\* const issues, after the three ifs
CookieIssues(cookie, url) ==
    (IF ~cookie.secure /\ startsWith(url, "https://")
     THEN <<"Missing Secure flag">> ELSE <<>>)
    \o (IF ~cookie.httpOnly /\ SensitiveName(cookie.name)
        THEN <<"Missing HttpOnly flag on sensitive cookie">> ELSE <<>>)
    \o (IF cookie.sameSite = undefined \/ cookie.sameSite = <<"None">>
        THEN <<"Missing or lax SameSite attribute">> ELSE <<>>)

InsecureCookie(cookie, url, issues) ==
    [severity |-> "medium", title |-> <<"Insecure Cookie: ">> \o cookie.name,
     url |-> url, payload |-> <<>>, cwe |-> "CWE-614",
     evidence |-> join(issues, "; ")]

\* the body of the loop: the Findings one cookie leads to
CookieFindings(cookie, url) ==
    LET issues == CookieIssues(cookie, url)
    IN  IF Len(issues) > 0 THEN <<InsecureCookie(cookie, url, issues)>>
        ELSE <<>>

\* await page.goto('/'): the navigation succeeds at url, or rejects; the
\* rejection is not caught and ends the test
CookieGoto(url, ok) ==
    /\ pc = "cookie-goto"
    /\ pc' = IF ok THEN "cookie-loop" ELSE "failed"
    /\ page' = IF ok THEN url ELSE page
    /\ last' = [kind |-> "goto", ok |-> ok, before |-> Len(findings)]
    /\ UNCHANGED <<reporterVars, fileExists, mtimeMs, now, skipAuth, gate,
                   gateIn, gateEvals, urlIdx, payIdx, requests, hits>>
    /\ UNCHANGED <<step, inflight, burst, cliVars>>

\* one pass of for (const cookie of cookies)
CookieCheck(cookie) ==
    /\ pc = "cookie-loop"
    /\ step < MaxCookies
    /\ step' = step + 1
    /\ last' = [kind |-> "cookie", cookie |-> cookie,
                before |-> Len(findings)]
    /\ AddFromProbe(CookieFindings(cookie, page))
    /\ UNCHANGED <<fileExists, mtimeMs, now, skipAuth, pc, gate, gateIn,
                   gateEvals, urlIdx, payIdx, requests, hits>>
    /\ UNCHANGED <<page, inflight, burst, cliVars>>

\* cookies has no further entry: the test returns
CookiesEnd ==
    /\ pc = "cookie-loop"
    /\ pc' = "done"
    /\ UNCHANGED <<reporterVars, fileExists, mtimeMs, now, skipAuth, gate,
                   gateIn, gateEvals, urlIdx, payIdx, requests, hits>>
    /\ UNCHANGED <<probeVars, cliVars>>

InitCookies == InitProbe("cookie-goto")

NextCookies ==
    \/ \E url \in PageUrls, ok \in BOOLEAN : CookieGoto(url, ok)
    \/ \E cookie \in Cookies : CookieCheck(cookie)
    \/ CookiesEnd

SpecCookies == InitCookies /\ [][NextCookies]_vars

-----------------------------------------------------------------------------
(* The timing probe: dast/tests/12-ssrf.spec.ts, test 'Check for blind SQL
   injection timing attacks' *)

timingPayloads ==
    << <<"'; ", "WAITFOR DELAY", " '0:0:5'", "--">>,
       <<"'; ", "SELECT ", "SLEEP(5)", "--">>,
       <<"' OR ", "SLEEP(5)", "--">> >>

AllTimingEndpoints == << <<"/api/users">>, <<"/api/items">>, <<"/api/search">> >>

timingEndpoints == SubSeq(AllTimingEndpoints, 1, MaxEndpoints)

\* the timeout option of request.get, in ms
requestTimeoutMs == 10000

\* the cutoff of the timing oracle, in ms
timingCutoffMs == 4500

\* How request.get can end, with the ms Date.now() advanced meanwhile: a
\* response (fast, just under the cutoff, at the cutoff, after the 5 s the
\* payload asks for), a refused connection, or the timeout, which rejects
\* once requestTimeoutMs have passed
TimingOutcomes ==
    [kind : {"response"},
     elapsed : {120, timingCutoffMs - 1, timingCutoffMs, 5200}]
    \cup {[kind |-> "refused", elapsed |-> 3],
          [kind |-> "timeout", elapsed |-> requestTimeoutMs]}

BlindSqli(endpoint, payload, elapsed) ==
    [severity |-> "high", title |-> "Potential Blind SQL Injection (Timing)",
     url |-> endpoint, payload |-> payload, cwe |-> "CWE-89",
     evidence |-> <<"Response time: ", elapsed, "ms">>]

\* an oracle that wants more than the cutoff
TimingFindings_aboveCutoff(out, endpoint, payload) ==
    IF out.elapsed > timingCutoffMs
    THEN <<BlindSqli(endpoint, payload, out.elapsed)>>
    ELSE <<>>

\* the body of the try block: .catch(() => {}) turns a rejection into a
\* fulfilled undefined, so elapsed is measured and tested in every case
TimingFindings(out, endpoint, payload) ==
    IF out.elapsed >= timingCutoffMs
    THEN <<BlindSqli(endpoint, payload, out.elapsed)>>
    ELSE <<>>

\* one pass of the inner loop, with the way the request ends
TimingRequest(out) ==
    /\ pc = "timing"
    /\ LET endpoint == timingEndpoints[urlIdx]
           payload == timingPayloads[payIdx]
           lastPayload == payIdx = Len(timingPayloads)
       IN  /\ requests' = Append(requests, <<endpoint, payload>>)
           /\ last' = [kind |-> "timing", endpoint |-> endpoint,
                       payload |-> payload, out |-> out,
                       before |-> Len(findings)]
           /\ AddFromProbe(TimingFindings(out, endpoint, payload))
           /\ payIdx' = IF lastPayload THEN 1 ELSE payIdx + 1
           /\ urlIdx' = IF lastPayload THEN urlIdx + 1 ELSE urlIdx
           /\ pc' = IF lastPayload /\ urlIdx = Len(timingEndpoints)
                    THEN "done" ELSE "timing"
    /\ UNCHANGED <<fileExists, mtimeMs, now, skipAuth, gate, gateIn, gateEvals,
                   hits>>
    /\ UNCHANGED <<step, page, inflight, burst, cliVars>>

InitTiming == InitProbe("timing")

NextTiming == \E out \in TimingOutcomes : TimingRequest(out)

SpecTiming == InitTiming /\ [][NextTiming]_vars

-----------------------------------------------------------------------------
(* The race probes: dast/tests (business logic), tests 'Check for race
   conditions in coupon/promo codes' and 'Check for time-of-check to
   time-of-use (TOCTOU)' *)

RaceTests == {"promo", "toctou"}

AllRaceEndpoints(test) ==
    IF test = "promo"
    THEN << <<"/api/apply-promo">>, <<"/api/coupon">>, <<"/api/discount">> >>
    ELSE << <<"/api/transfer">>, <<"/api/purchase">>, <<"/api/redeem">> >>

raceEndpoints(test) == SubSeq(AllRaceEndpoints(test), 1, MaxRaceEndpoints)

\* Array(5) of the promo test, Array(3) of the TOCTOU test
BurstSize(test) == IF test = "promo" THEN 5 ELSE 3

RaceFinding(test, endpoint, successCount) ==
    IF test = "promo"
    THEN [severity |-> "medium", title |-> "Potential Race Condition",
          url |-> endpoint, payload |-> <<>>, cwe |-> "CWE-362",
          evidence |-> <<successCount, "/", BurstSize(test),
                         " requests succeeded simultaneously">>]
    ELSE [severity |-> "high", title |-> "TOCTOU Race Condition",
          url |-> endpoint, payload |-> <<>>, cwe |-> "CWE-362",
          evidence |-> <<successCount, "/", BurstSize(test),
                         " concurrent requests succeeded">>]

\* what follows await Promise.all(promises) once it fulfils
RaceFindings(test, endpoint, successCount) ==
    IF successCount > 1 THEN <<RaceFinding(test, endpoint, successCount)>>
    ELSE <<>>

\* a catch block that applies the oracle to the responses received so far
OnRejection_countsSoFar(test, endpoint, successCount) ==
    RaceFindings(test, endpoint, successCount)

\* catch (e) { // Continue }: what the probe does with the responses of a
\* burst once one of its requests rejected
OnRejection(test, endpoint, successCount) == <<>>

\* the requests in flight, all endpoints together
InflightTotal ==
    LET RECURSIVE Sum(_)
        Sum(i) == IF i = 0 THEN 0 ELSE inflight[i] + Sum(i - 1)
    IN  Sum(Len(inflight))

\* the promises are created: every request.post of the burst is sent before
\* Promise.all is awaited
FireBurst ==
    /\ pc = "race"
    /\ inflight' = [inflight EXCEPT ![urlIdx] = @ + BurstSize(burst.test)]
    /\ burst' = [burst EXCEPT !.endpoint = urlIdx,
                              !.size = BurstSize(burst.test),
                              !.fulfilled = 0, !.ok = 0, !.rejected = FALSE]
    /\ pc' = "race-await"
    /\ UNCHANGED <<reporterVars, fileExists, mtimeMs, now, skipAuth, gate,
                   gateIn, gateEvals, urlIdx, payIdx, requests, hits>>
    /\ UNCHANGED <<step, last, page, cliVars>>

\* the loop goes to its next endpoint, or the test returns
NextEndpoint ==
    /\ urlIdx' = urlIdx + 1
    /\ pc' = IF urlIdx = Len(raceEndpoints(burst.test)) THEN "done"
             ELSE "race"

\* a request to endpoint e gets its response. If it belongs to the awaited
\* Promise.all and is the last one outstanding, Promise.all fulfils and the
\* rest of the try block runs; a response to a request of an earlier,
\* rejected Promise.all is dropped
RequestCompletes(e, status) ==
    /\ e \in DOMAIN inflight
    /\ inflight[e] > 0
    /\ inflight' = [inflight EXCEPT ![e] = @ - 1]
    /\ IF pc = "race-await" /\ e = burst.endpoint
       THEN LET fulfilled == burst.fulfilled + 1
                ok == burst.ok + (IF status = 200 THEN 1 ELSE 0)
                endpoint == raceEndpoints(burst.test)[e]
            IN  /\ burst' = [burst EXCEPT !.fulfilled = fulfilled, !.ok = ok]
                /\ IF fulfilled = burst.size
                   THEN /\ AddFromProbe(RaceFindings(burst.test, endpoint, ok))
                        /\ last' = [kind |-> "burst", endpoint |-> e,
                                    ok |-> ok, rejected |-> FALSE,
                                    before |-> Len(findings)]
                        /\ NextEndpoint
                   ELSE UNCHANGED <<reporterVars, last, urlIdx, pc>>
       ELSE UNCHANGED <<reporterVars, burst, last, urlIdx, pc>>
    /\ hits' = IF status = 200 THEN [hits EXCEPT ![e].ok = @ + 1]
               ELSE [hits EXCEPT ![e].other = @ + 1]
    /\ UNCHANGED <<fileExists, mtimeMs, now, skipAuth, gate, gateIn, gateEvals,
                   payIdx, requests>>
    /\ UNCHANGED <<step, page, cliVars>>

\* a request to endpoint e rejects (its timeout of 5000 ms, a refused or reset
\* connection). Promise.all rejects with the first rejection, whatever is
\* still outstanding: the catch block runs and the loop continues
RequestFails(e) ==
    /\ e \in DOMAIN inflight
    /\ inflight[e] > 0
    /\ inflight' = [inflight EXCEPT ![e] = @ - 1]
    /\ IF pc = "race-await" /\ e = burst.endpoint
       THEN /\ burst' = [burst EXCEPT !.rejected = TRUE]
            /\ AddFromProbe(OnRejection(burst.test,
                                        raceEndpoints(burst.test)[e],
                                        burst.ok))
            /\ last' = [kind |-> "burst", endpoint |-> e, ok |-> burst.ok,
                        rejected |-> TRUE, before |-> Len(findings)]
            /\ NextEndpoint
       ELSE UNCHANGED <<reporterVars, burst, last, urlIdx, pc>>
    /\ hits' = [hits EXCEPT ![e].failed = @ + 1]
    /\ UNCHANGED <<fileExists, mtimeMs, now, skipAuth, gate, gateIn, gateEvals,
                   payIdx, requests>>
    /\ UNCHANGED <<step, page, cliVars>>

InitRace ==
    /\ InitReporter
    /\ fileExists = FALSE
    /\ mtimeMs = 0
    /\ now = 0
    /\ skipAuth = FALSE
    /\ pc = "race"
    /\ gate = "none"
    /\ gateIn = [exists |-> FALSE, age |-> 0]
    /\ gateEvals = 0
    /\ urlIdx = 1
    /\ payIdx = 1
    /\ requests = <<>>
    /\ hits = [e \in 1..MaxRaceEndpoints |->
                   [ok |-> 0, other |-> 0, failed |-> 0]]
    /\ InitNoCli
    /\ step = 0
    /\ last = NoLast
    /\ page = <<>>
    /\ inflight = [e \in 1..MaxRaceEndpoints |-> 0]
    /\ \E test \in RaceTests : burst = [NoBurst EXCEPT !.test = test]

NextRace ==
    \/ FireBurst
    \/ \E e \in 1..MaxRaceEndpoints, status \in {200, 409} :
           RequestCompletes(e, status)
    \/ \E e \in 1..MaxRaceEndpoints : RequestFails(e)

SpecRace == InitRace /\ [][NextRace]_vars

-----------------------------------------------------------------------------
(* The auth command: scripts/auth-setup.mjs, and clear of run-dast *)

\* a check that still reuses a snapshot aged exactly authExpiryMs
AuthSetupReuses_upToExpiry(exists, fileAge) ==
    exists /\ fileAge <= authExpiryMs

\* existsSync(authFile) and fileAge < authExpiryMs: the script exits 0 at once
AuthSetupReuses(exists, fileAge) ==
    exists /\ fileAge < authExpiryMs

\* the clock advances
Tick(d) ==
    /\ step < MaxAuthSteps
    /\ authCmd # "capturing"
    /\ step' = step + 1
    /\ now' = now + d
    /\ UNCHANGED <<reporterVars, fileExists, mtimeMs, skipAuth, pc, gate,
                   gateIn, gateEvals, urlIdx, payIdx, requests, hits>>
    /\ UNCHANGED <<last, page, inflight, burst, cliVars>>

\* node scripts/auth-setup.mjs up to the browser launch.  gateIn and gate
\* record what the script read and what the setup test makes of the same
\* reading.
AuthSetup ==
    /\ step < MaxAuthSteps
    /\ authCmd # "capturing"
    /\ step' = step + 1
    /\ LET fileAge == now - mtimeMs
       IN  /\ authCmd' = IF AuthSetupReuses(fileExists, fileAge)
                         THEN "reused" ELSE "capturing"
           /\ gateIn' = [exists |-> fileExists, age |-> fileAge]
           /\ gate' = AuthGate(fileExists, fileAge)
    /\ UNCHANGED <<reporterVars, fileExists, mtimeMs, now, skipAuth, pc,
                   gateEvals, urlIdx, payIdx, requests, hits>>
    /\ UNCHANGED <<last, page, inflight, burst, runner, exit, zap, repos>>

\* the operator logs in and presses Enter; after waitForTimeout(2000) the
\* script writes the snapshot with context.storageState
Capture(d) ==
    /\ authCmd = "capturing"
    /\ authCmd' = "captured"
    /\ now' = now + d + 2000
    /\ fileExists' = TRUE
    /\ mtimeMs' = now'
    /\ UNCHANGED <<reporterVars, skipAuth, pc, gate, gateIn, gateEvals,
                   urlIdx, payIdx, requests, hits>>
    /\ UNCHANGED <<probeVars, runner, exit, zap, repos>>

\* $(( a / b )) of the shell: the quotient truncated towards zero
ShellDiv(a, b) == IF a >= 0 THEN a \div b ELSE 0 - ((0 - a) \div b)

\* check_auth: the status it returns and the line it prints, with AGE in
\* minutes from the whole seconds of date +%s and stat -c %Y
check_auth(exists, nowMs, fileMs) ==
    IF exists
    THEN [status |-> 0, line |-> "Authentication found",
          age |-> ShellDiv((nowMs \div 1000) - (fileMs \div 1000), 60)]
    ELSE [status |-> 1, line |-> "No authentication found", age |-> 0]

\* run-dast status.  gateIn and gate record the reading and what the setup
\* test makes of it at the same instant.
Status ==
    /\ step < MaxAuthSteps
    /\ authCmd # "capturing"
    /\ step' = step + 1
    /\ authCmd' = "status"
    /\ last' = [kind |-> "status",
                res |-> check_auth(fileExists, now, mtimeMs)]
    /\ gateIn' = [exists |-> fileExists, age |-> now - mtimeMs]
    /\ gate' = AuthGate(fileExists, now - mtimeMs)
    /\ UNCHANGED <<reporterVars, fileExists, mtimeMs, now, skipAuth, pc,
                   gateEvals, urlIdx, payIdx, requests, hits>>
    /\ UNCHANGED <<page, inflight, burst, runner, exit, zap, repos>>

\* run-dast clear: do_clear / Clear-Auth
Clear ==
    /\ authCmd # "capturing"
    /\ fileExists
    /\ fileExists' = FALSE
    /\ authCmd' = "cleared"
    /\ UNCHANGED <<reporterVars, mtimeMs, now, skipAuth, pc, gate, gateIn,
                   gateEvals, urlIdx, payIdx, requests, hits>>
    /\ UNCHANGED <<probeVars, runner, exit, zap, repos>>

InitAuth ==
    /\ InitReporter
    /\ fileExists \in BOOLEAN
    /\ mtimeMs = 1000
    /\ now \in {mtimeMs + a : a \in Ages}
    /\ skipAuth = FALSE
    /\ pc = "idle"
    /\ gate = "none"
    /\ gateIn = [exists |-> FALSE, age |-> 0]
    /\ gateEvals = 0
    /\ urlIdx = 1
    /\ payIdx = 1
    /\ requests = <<>>
    /\ hits = <<>>
    /\ InitNoProbe
    /\ InitNoCli

NextAuth ==
    \/ \E d \in {1, 60000} : Tick(d)
    \/ AuthSetup
    \/ \E d \in {0, 60000} : Capture(d)
    \/ Status
    \/ Clear

SpecAuth == InitAuth /\ [][NextAuth]_vars

-----------------------------------------------------------------------------
(* The ZAP runner: scripts/run-zap.sh and scripts/run-zap.ps1 *)

\* the JSON document {"key":"value"} or {"key":value} as tokens: the key with
\* its quotes and colon is one token, a quote is one token
Json(key, value, quoted) ==
    IF quoted THEN <<"{", key, "\"", value, "\"", "}">>
    ELSE <<"{", key, value, "}">>

\* [0-9]+ on one token
IsDigits(t) == t \in {"0", "1", "50", "100"}

\* the first position of the key in a document, 0 if it has none
KeyAt(body, key) ==
    IF \E i \in DOMAIN body : body[i] = key
    THEN CHOOSE i \in DOMAIN body :
             body[i] = key /\ \A j \in 1..(i - 1) : body[j] # key
    ELSE 0

\* the token at position i, or the empty string past the end
TokenAt(body, i) == IF i \in DOMAIN body THEN body[i] ELSE ""

\* grep -o '"key":[0-9]*': the key and the digits that follow it, if any
GrepKeyDigits(body, key) ==
    LET i == KeyAt(body, key)
    IN  IF i = 0 THEN <<>>
        ELSE IF IsDigits(TokenAt(body, i + 1)) THEN <<key, body[i + 1]>>
        ELSE <<key>>

\* grep -o '"key":"[^"]*"': the key and a quoted value
GrepKeyQuoted(body, key) ==
    LET i == KeyAt(body, key)
    IN  IF i # 0 /\ TokenAt(body, i + 1) = "\""
           /\ TokenAt(body, i + 2) \notin {"\"", ""}
           /\ TokenAt(body, i + 3) = "\""
        THEN <<key, "\"", body[i + 2], "\"">>
        ELSE <<>>

\* grep -o '"key":"[^"]*""': the key, a quoted value and one more quote
GrepKeyQuotedQuote(body, key) ==
    LET i == KeyAt(body, key)
    IN  IF i # 0 /\ TokenAt(body, i + 1) = "\""
           /\ TokenAt(body, i + 2) \notin {"\"", ""}
           /\ TokenAt(body, i + 3) = "\""
           /\ TokenAt(body, i + 4) = "\""
        THEN <<key, "\"", body[i + 2], "\"", "\"">>
        ELSE <<>>

\* cut -d':' -f2 of a match that starts with the key: what follows the colon
CutColon2(match) == IF Len(match) >= 2 THEN match[2] ELSE ""

\* cut -d'"' -f4 of a match "key":"value": the value
CutQuote4(match) == IF Len(match) >= 3 THEN match[3] ELSE ""

\* $response.key of the object Invoke-RestMethod parses: the value with its
\* type, or $null
Property(body, key) ==
    LET i == KeyAt(body, key)
    IN  IF i = 0 THEN [type |-> "null", value |-> ""]
        ELSE IF TokenAt(body, i + 1) = "\""
        THEN [type |-> "string", value |-> body[i + 2]]
        ELSE [type |-> "number", value |-> body[i + 1]]

\* -not $x is false for this value: a non-empty string, a number other than 0
Truthy(x) ==
    \/ x.type = "string" /\ x.value # ""
    \/ x.type = "number" /\ x.value # "0"

\* $x -eq "literal": a number on the left is compared with the converted
\* literal
EqLiteral(x, literal) == x.type # "null" /\ x.value = literal

\* What ZAP, or whatever answers at ZAP_API_URL, can send back; <<>> stands
\* for a connection that is refused
refused == <<>>

StartBodies ==
    {refused, Json("\"code\":", "url_not_found", TRUE)}
    \cup {Json("\"scan\":", id, q) : id \in {"0", "1"}, q \in BOOLEAN}

ProgressBodies ==
    {refused} \cup {Json("\"status\":", v, q) : v \in {"50", "100"},
                                                  q \in BOOLEAN}

AjaxBodies ==
    {refused, Json("\"status\":", "running", TRUE),
     Json("\"status\":", "stopped", TRUE)}

\* SCAN_ID / $scanId after the start request of the spider or the active
\* scan: the id, or "" when the stage failed to start
ScanId(run, body) ==
    IF run = "sh" THEN CutColon2(GrepKeyDigits(body, "\"scan\":"))
    ELSE IF Truthy(Property(body, "\"scan\":"))
         THEN Property(body, "\"scan\":").value
         ELSE ""

\* the test that ends the polling loop of the spider
SpiderComplete(run, body) ==
    IF run = "sh"
    THEN \/ CutQuote4(GrepKeyQuoted(body, "\"status\":")) = "100"
         \/ CutColon2(GrepKeyDigits(body, "\"status\":")) = "100"
    ELSE EqLiteral(Property(body, "\"status\":"), "100")

\* the test that ends the polling loop of the AJAX spider
AjaxComplete(run, body) ==
    IF run = "sh"
    THEN CutQuote4(GrepKeyQuotedQuote(body, "\"status\":")) = "stopped"
    ELSE EqLiteral(Property(body, "\"status\":"), "stopped")

\* the test that ends the polling loop of the active scan; the second grep
\* keeps the digits of a quoted number
ActiveScanComplete(run, body) ==
    IF run = "sh"
    THEN LET m == GrepKeyQuoted(body, "\"status\":")
         IN  m # <<>> /\ IsDigits(m[3]) /\ m[3] = "100"
    ELSE EqLiteral(Property(body, "\"status\":"), "100")

-----------------------------------------------------------------------------
(* The ZAP runner: its commands *)

ZapCommands == {"quick", "full", "baseline", "api"}

\* the stage that follows a stage under a command, as a value of pc
AfterStage(cmd, stage) ==
    CASE stage = "check" -> IF cmd = "api" THEN "zap-import"
                            ELSE "zap-spider-start"
      [] stage = "spider" -> IF cmd = "quick" THEN "zap-ascan-start"
                             ELSE IF cmd = "full" THEN "zap-ajax-start"
                             ELSE "zap-report"
      [] stage = "ajax" -> "zap-ascan-start"
      [] stage = "import" -> "zap-ascan-start"
      [] OTHER -> "zap-report"

\* a check whose result the command does not look at
AfterCheck_goesOn(reachable, cmd) == AfterStage(cmd, "check")

\* if ! check_zap; then exit 1; fi
AfterCheck(reachable, cmd) ==
    IF reachable THEN AfterStage(cmd, "check") ELSE "zap-exited"

StartPc(stage) == IF stage = "spider" THEN "zap-spider-start"
                  ELSE "zap-ascan-start"

PollPc(stage) == IF stage = "spider" THEN "zap-spider-poll"
                 ELSE "zap-ascan-poll"

StartRequest(stage) == IF stage = "spider" THEN "spider/action/scan"
                       ELSE "ascan/action/scan"

StatusRequest(stage) == IF stage = "spider" THEN "spider/view/status"
                        ELSE "ascan/view/status"

Complete(stage, run, body) ==
    IF stage = "spider" THEN SpiderComplete(run, body)
    ELSE ActiveScanComplete(run, body)

\* the script ends with this status after printing these lines
ZapExit(status, lines) ==
    /\ exit' = [status |-> status, printed |-> exit.printed \o lines,
                report |-> <<>>]
    /\ pc' = "zap-exited"

\* the script goes on to another stage after printing these lines
ZapGoesOn(next, lines) ==
    /\ exit' = [exit EXCEPT !.printed = @ \o lines]
    /\ pc' = next

\* check_zap / Test-Zap and the if around it: one request for the version
\* (the shell script asks a second time to print it)
ZapCheck(reachable) ==
    /\ pc = "zap-check"
    /\ requests' = requests \o (IF runner = "sh" /\ reachable
                                THEN <<"core/view/version",
                                       "core/view/version">>
                                ELSE <<"core/view/version">>)
    /\ last' = [kind |-> "zap-check", reachable |-> reachable]
    /\ IF reachable
       THEN ZapGoesOn(AfterCheck(reachable, zap.cmd), <<"ZAP is running">>)
       ELSE /\ exit' = [status |-> 1,
                        printed |-> <<"ZAP is not accessible",
                                      "Start ZAP with: docker-compose up -d zap",
                                      "Or use ZAP desktop">>,
                        report |-> <<>>]
            /\ pc' = AfterCheck(reachable, zap.cmd)
    /\ UNCHANGED <<reporterVars, fileExists, mtimeMs, now, skipAuth, gate,
                   gateIn, gateEvals, urlIdx, payIdx, hits>>
    /\ UNCHANGED <<step, page, inflight, burst, runner, authCmd, zap, repos>>

\* run_spider / run_active_scan up to the polling loop, Invoke-Spider /
\* Invoke-ActiveScan likewise.  A stage that fails to start returns 1 in the
\* shell script, which ends it under set -e; in the PowerShell script it
\* returns $false to a caller that does not look at it.  A refused connection
\* leaves SCAN_ID empty in the shell script and throws in the PowerShell one.
ZapStart(stage, body) ==
    /\ pc = StartPc(stage)
    /\ requests' = Append(requests, StartRequest(stage))
    /\ last' = [kind |-> "zap-start", stage |-> stage, body |-> body]
    /\ LET id == ScanId(runner, body)
       IN  IF runner = "ps1" /\ body = refused
           THEN ZapExit(1, <<>>) /\ zap' = zap
           ELSE IF id = ""
           THEN /\ zap' = [zap EXCEPT !.scanId = ""]
                /\ IF runner = "sh" THEN ZapExit(1, <<"Failed to start">>)
                   ELSE ZapGoesOn(AfterStage(zap.cmd, stage),
                                  <<"Failed to start">>)
           ELSE /\ zap' = [zap EXCEPT !.scanId = id,
                                      !.reached = @ \cup {<<stage, "started">>}]
                /\ ZapGoesOn(PollPc(stage), <<>>)
    /\ UNCHANGED <<reporterVars, fileExists, mtimeMs, now, skipAuth, gate,
                   gateIn, gateEvals, urlIdx, payIdx, hits>>
    /\ UNCHANGED <<step, page, inflight, burst, runner, authCmd, repos>>

\* one pass of while true of run_spider / run_active_scan (the shell script
\* asks for the spider's status twice in a pass; both answers are taken to be
\* the same document)
ZapPoll(stage, body) ==
    /\ pc = PollPc(stage)
    /\ step < MaxPolls
    /\ last' = [kind |-> "zap-poll", stage |-> stage, body |-> body]
    /\ IF runner = "ps1" /\ body = refused
       THEN /\ ZapExit(1, <<>>)
            /\ requests' = Append(requests, StatusRequest(stage))
            /\ UNCHANGED <<step, zap>>
       ELSE IF Complete(stage, runner, body)
       THEN /\ ZapGoesOn(AfterStage(zap.cmd, stage), <<"complete">>)
            /\ requests' = requests \o <<StatusRequest(stage)>>
                           \o (IF runner = "sh" /\ stage = "spider"
                               THEN <<"spider/view/results">> ELSE <<>>)
            /\ step' = 0
            /\ zap' = [zap EXCEPT !.reached = @ \cup {<<stage, "complete">>}]
       ELSE /\ requests' = Append(requests, StatusRequest(stage))
            /\ step' = step + 1
            /\ UNCHANGED <<pc, exit, zap>>
    /\ UNCHANGED <<reporterVars, fileExists, mtimeMs, now, skipAuth, gate,
                   gateIn, gateEvals, urlIdx, payIdx, hits>>
    /\ UNCHANGED <<page, inflight, burst, runner, authCmd, repos>>

\* run_ajax_spider / Invoke-AjaxSpider up to the polling loop: the start
\* request is a command of its own, so a refused connection ends both scripts
ZapAjaxStart(body) ==
    /\ pc = "zap-ajax-start"
    /\ requests' = Append(requests, "ajaxSpider/action/scan")
    /\ last' = [kind |-> "zap-start", stage |-> "ajax", body |-> body]
    /\ IF body = refused
       THEN ZapExit(IF runner = "sh" THEN 7 ELSE 1, <<>>) /\ zap' = zap
       ELSE /\ ZapGoesOn("zap-ajax-poll", <<>>)
            /\ zap' = [zap EXCEPT !.reached = @ \cup {<<"ajax", "started">>}]
    /\ UNCHANGED <<reporterVars, fileExists, mtimeMs, now, skipAuth, gate,
                   gateIn, gateEvals, urlIdx, payIdx, hits>>
    /\ UNCHANGED <<step, page, inflight, burst, runner, authCmd, repos>>

\* one pass of while true of run_ajax_spider / Invoke-AjaxSpider
ZapAjaxPoll(body) ==
    /\ pc = "zap-ajax-poll"
    /\ step < MaxPolls
    /\ requests' = Append(requests, "ajaxSpider/view/status")
    /\ last' = [kind |-> "zap-poll", stage |-> "ajax", body |-> body]
    /\ IF runner = "ps1" /\ body = refused
       THEN ZapExit(1, <<>>) /\ UNCHANGED <<step, zap>>
       ELSE IF AjaxComplete(runner, body)
       THEN /\ ZapGoesOn(AfterStage(zap.cmd, "ajax"), <<"complete">>)
            /\ step' = 0
            /\ zap' = [zap EXCEPT !.reached = @ \cup {<<"ajax", "complete">>}]
       ELSE /\ step' = step + 1
            /\ UNCHANGED <<pc, exit, zap>>
    /\ UNCHANGED <<reporterVars, fileExists, mtimeMs, now, skipAuth, gate,
                   gateIn, gateEvals, urlIdx, payIdx, hits>>
    /\ UNCHANGED <<page, inflight, burst, runner, authCmd, repos>>

-----------------------------------------------------------------------------
(* The ZAP runner: import, report and the whole run *)

ImportBodies ==
    {refused, Json("\"result\":", "OK", TRUE),
     Json("\"code\":", "does_not_exist", TRUE)}

\* run_api_scan / Invoke-ApiScan up to the active scan.  Without
\* ZAP_OPENAPI_URL the function returns 1 (the shell script ends) or $false
\* (the PowerShell script goes on to Export-Report); a refused import leaves
\* IMPORT_RESPONSE empty in the shell script and throws in the PowerShell one.
ZapImport(body) ==
    /\ pc = "zap-import"
    /\ last' = [kind |-> "zap-start", stage |-> "import", body |-> body]
    /\ IF ~zap.openapi
       THEN /\ requests' = requests
            /\ IF runner = "sh"
               THEN ZapExit(1, <<"Error: ZAP_OPENAPI_URL not set">>)
               ELSE ZapGoesOn("zap-report",
                              <<"Error: ZAP_OPENAPI_URL not set">>)
       ELSE /\ requests' = Append(requests, "openapi/action/importUrl")
            /\ IF runner = "ps1" /\ body = refused
               THEN ZapExit(1, <<>>)
               ELSE ZapGoesOn(AfterStage(zap.cmd, "import"), <<>>)
    /\ UNCHANGED <<reporterVars, fileExists, mtimeMs, now, skipAuth, gate,
                   gateIn, gateEvals, urlIdx, payIdx, hits>>
    /\ UNCHANGED <<step, page, inflight, burst, runner, authCmd, zap, repos>>

ReportBodies == {refused, <<"<html>", "ZAP Scanning Report", "</html>">>}

\* generate_report / Export-Report with ZAP_FORMAT html, and the lines that
\* follow it in the command.  A refused connection ends the shell script with
\* the status of curl and the PowerShell script with a thrown error.
ZapReport(body) ==
    /\ pc = "zap-report"
    /\ last' = [kind |-> "zap-report", body |-> body]
    /\ IF body = refused
       THEN /\ requests' = Append(requests, "core/other/htmlreport")
            /\ ZapExit(IF runner = "sh" THEN 7 ELSE 1, <<>>)
            /\ zap' = zap
       ELSE /\ requests' = requests \o <<"core/other/htmlreport",
                                         "core/view/alerts">>
            /\ ZapExit(0, <<"Report saved">>
                          \o (IF zap.cmd \in {"quick", "full"}
                              THEN <<"Scan Complete">> ELSE <<>>))
            /\ zap' = [zap EXCEPT !.reached = @ \cup {<<"report", "saved">>}]
    /\ UNCHANGED <<reporterVars, fileExists, mtimeMs, now, skipAuth, gate,
                   gateIn, gateEvals, urlIdx, payIdx, hits>>
    /\ UNCHANGED <<step, page, inflight, burst, runner, authCmd, repos>>

InitZap ==
    /\ InitReporter
    /\ fileExists = FALSE
    /\ mtimeMs = 0
    /\ now = 0
    /\ skipAuth = FALSE
    /\ pc = "zap-check"
    /\ gate = "none"
    /\ gateIn = [exists |-> FALSE, age |-> 0]
    /\ gateEvals = 0
    /\ urlIdx = 1
    /\ payIdx = 1
    /\ requests = <<>>
    /\ hits = <<>>
    /\ InitNoProbe
    /\ runner \in Runners
    /\ exit = NoExit
    /\ authCmd = "none"
    /\ zap \in [cmd : ZapCommands, openapi : BOOLEAN, scanId : {""},
                reached : {{}}]
    /\ repos = NoRepos

NextZap ==
    \/ \E reachable \in BOOLEAN : ZapCheck(reachable)
    \/ \E stage \in {"spider", "ascan"}, body \in StartBodies :
           ZapStart(stage, body)
    \/ \E stage \in {"spider", "ascan"}, body \in ProgressBodies :
           ZapPoll(stage, body)
    \/ \E body \in AjaxBodies : ZapAjaxStart(body)
    \/ \E body \in AjaxBodies : ZapAjaxPoll(body)
    \/ \E body \in ImportBodies : ZapImport(body)
    \/ \E body \in ReportBodies : ZapReport(body)

SpecZap == InitZap /\ [][NextZap]_vars

-----------------------------------------------------------------------------
(* The similarity of two response bodies, and the IDOR probe that uses it *)

\* the longest body the similarity is computed for in SpecSimilarity
MaxBodyLen == 3

\* the visits of the IDOR probe
MaxIdorPaths == 3

\* a number of the form a / b, as the division of two lengths gives it
Ratio(a, b) == [num |-> a, den |-> b]

Greater(r, s) == r.num * s.den > s.num * r.den

SameRatio(r, s) == r.num * s.den = s.num * r.den

\* String.prototype.includes on the characters of two strings
includesString(longer, shorter) ==
    \E k \in 0..(Len(longer) - Len(shorter)) :
        SubSeq(longer, k + 1, k + Len(shorter)) = shorter

\* the function without its first return
calculateSimilarity_emptyIsZero(str1, str2) ==
    LET len1 == Len(str1)
        len2 == Len(str2)
        longer == IF len1 > len2 THEN str1 ELSE str2
        shorter == IF len1 > len2 THEN str2 ELSE str1
        minLen == IF len1 < len2 THEN len1 ELSE len2
        maxLen == IF len1 > len2 THEN len1 ELSE len2
        matches == Cardinality({i \in 1..minLen : str1[i] = str2[i]})
    IN  IF len1 = 0 \/ len2 = 0 THEN Ratio(0, 1)
        ELSE IF includesString(longer, shorter)
        THEN Ratio(Len(shorter), Len(longer))
        ELSE Ratio(matches, maxLen)

calculateSimilarity(str1, str2) ==
    LET len1 == Len(str1)
        len2 == Len(str2)
        longer == IF len1 > len2 THEN str1 ELSE str2
        shorter == IF len1 > len2 THEN str2 ELSE str1
        minLen == IF len1 < len2 THEN len1 ELSE len2
        maxLen == IF len1 > len2 THEN len1 ELSE len2
        matches == Cardinality({i \in 1..minLen : str1[i] = str2[i]})
    IN  IF len1 = 0 /\ len2 = 0 THEN Ratio(1, 1)
        ELSE IF len1 = 0 \/ len2 = 0 THEN Ratio(0, 1)
        ELSE IF includesString(longer, shorter)
        THEN Ratio(Len(shorter), Len(longer))
        ELSE Ratio(matches, maxLen)

\* the strings the function is applied to
Strings == UNION {[1..n -> {"a", "b"}] : n \in 0..MaxBodyLen}

\* one call of the function, and the call with the arguments exchanged
CalculateSimilarity ==
    /\ pc = "similarity"
    /\ last' = [kind |-> "similarity", str1 |-> page.str1, str2 |-> page.str2,
                res |-> calculateSimilarity(page.str1, page.str2),
                swapped |-> calculateSimilarity(page.str2, page.str1)]
    /\ pc' = "done"
    /\ UNCHANGED <<reporterVars, fileExists, mtimeMs, now, skipAuth, gate,
                   gateIn, gateEvals, urlIdx, payIdx, requests, hits>>
    /\ UNCHANGED <<step, page, inflight, burst, cliVars>>

\* a probe that starts with the page in the state pg
InitProbeOn(test, pg) ==
    /\ InitReporter
    /\ fileExists = FALSE
    /\ mtimeMs = 0
    /\ now = 0
    /\ skipAuth = FALSE
    /\ pc = test
    /\ gate = "none"
    /\ gateIn = [exists |-> FALSE, age |-> 0]
    /\ gateEvals = 0
    /\ urlIdx = 1
    /\ payIdx = 1
    /\ requests = <<>>
    /\ hits = <<>>
    /\ step = 0
    /\ last = NoLast
    /\ page = pg
    /\ inflight = <<>>
    /\ burst = NoBurst
    /\ InitNoCli

InitSimilarity ==
    \E a \in Strings, b \in Strings :
        InitProbeOn("similarity", [str1 |-> a, str2 |-> b])

NextSimilarity == CalculateSimilarity

SpecSimilarity == InitSimilarity /\ [][NextSimilarity]_vars

\* the paths of the IDOR test, each as its segments
idorPatterns ==
    << <<"api", "users", "1">>, <<"api", "users", "2">>,
       <<"users", "1">>, <<"users", "2">>,
       <<"profile", "1">>, <<"profile", "2">>,
       <<"account", "1">>, <<"account", "2">>,
       <<"orders", "1">>, <<"orders", "2">>,
       <<"documents", "1">>, <<"documents", "2">> >>

\* p.includes('/users/') and the like: the segment is in the path and another
\* segment follows it
includesSegment(path, segment) ==
    \E i \in 1..(Len(path) - 1) : path[i] = segment

isUserPath(path) ==
    \/ includesSegment(path, "users")
    \/ includesSegment(path, "profile")
    \/ includesSegment(path, "account")

\* Object.keys(responses).filter(...): the keys in the order of their insertion
userPaths(responses) == SelectSeq(responses, LAMBDA r : isUserPath(r.path))

\* similarity > 0.9
similarityCutoff == Ratio(9, 10)

IdorFinding(path1, path2, similarity) ==
    [severity |-> "high", title |-> "Potential IDOR Vulnerability",
     url |-> <<path1, "vs", path2>>, payload |-> <<>>, cwe |-> "CWE-639",
     evidence |-> <<"Response similarity:", similarity>>]

\* the oracle with the cutoff included
IdorPair_atLeast(r1, r2) ==
    IF r1.status = 200 /\ r2.status = 200
    THEN LET similarity == calculateSimilarity(r1.body, r2.body)
         IN  IF ~Greater(similarityCutoff, similarity) /\ r1.path # r2.path
             THEN <<IdorFinding(r1.path, r2.path, similarity)>>
             ELSE <<>>
    ELSE <<>>

\* the body of the inner loop for one pair of responses
IdorPair(r1, r2) ==
    IF r1.status = 200 /\ r2.status = 200
    THEN LET similarity == calculateSimilarity(r1.body, r2.body)
         IN  IF Greater(similarity, similarityCutoff) /\ r1.path # r2.path
             THEN <<IdorFinding(r1.path, r2.path, similarity)>>
             ELSE <<>>
    ELSE <<>>

\* for (let j = i + 1; ...): the pairs visited, each with what it added
RECURSIVE IdorInner(_, _, _)
IdorInner(up, i, j) ==
    IF j > Len(up) THEN <<>>
    ELSE <<[path1 |-> up[i].path, path2 |-> up[j].path,
            added |-> IdorPair(up[i], up[j])]>>
         \o IdorInner(up, i, j + 1)

\* for (let i = 0; ...)
RECURSIVE IdorOuter(_, _)
IdorOuter(up, i) ==
    IF i > Len(up) THEN <<>>
    ELSE IdorInner(up, i, i + 1) \o IdorOuter(up, i + 1)

RECURSIVE Flatten(_)
Flatten(ss) == IF ss = <<>> THEN <<>> ELSE Head(ss) \o Flatten(Tail(ss))

\* a body of n characters c
Chars(n, c) == [i \in 1..n |-> c]

\* what a navigation gives: an exception or no response, or a response with
\* its status and the content of the page
IdorOutcomes ==
    {[kind |-> "failed"]}
    \cup [kind : {"response"}, status : {200},
          body : {Chars(9, "a"), Chars(10, "a"), Chars(11, "a")}]
    \cup {[kind |-> "response", status |-> 403, body |-> Chars(10, "a")]}

\* const response = await page.goto(path, ...); responses[path] = ...
IdorGoto(out) ==
    /\ pc = "idor-goto"
    /\ LET path == page.patterns[urlIdx]
       IN  /\ requests' = Append(requests, path)
           /\ page' = IF out.kind = "response"
                      THEN [page EXCEPT !.responses =
                               Append(@, [path |-> path, status |-> out.status,
                                          body |-> out.body])]
                      ELSE page
    /\ urlIdx' = urlIdx + 1
    /\ pc' = IF urlIdx = Len(page.patterns) THEN "idor-compare" ELSE "idor-goto"
    /\ UNCHANGED <<reporterVars, fileExists, mtimeMs, now, skipAuth, gate,
                   gateIn, gateEvals, payIdx, hits>>
    /\ UNCHANGED <<step, last, inflight, burst, cliVars>>

\* the two loops over userPaths
IdorCompare ==
    /\ pc = "idor-compare"
    /\ LET visited == IdorOuter(userPaths(page.responses), 1)
       IN  /\ last' = [kind |-> "idor", visited |-> visited,
                       before |-> Len(findings)]
           /\ AddFromProbe(Flatten([k \in DOMAIN visited |-> visited[k].added]))
    /\ pc' = "done"
    /\ UNCHANGED <<fileExists, mtimeMs, now, skipAuth, gate, gateIn, gateEvals,
                   urlIdx, payIdx, requests, hits>>
    /\ UNCHANGED <<step, page, inflight, burst, cliVars>>

\* the test on MaxIdorPaths consecutive paths of the list
InitIdor ==
    \E first \in 1..(Len(idorPatterns) - MaxIdorPaths + 1) :
        InitProbeOn("idor-goto",
                    [patterns |-> SubSeq(idorPatterns, first,
                                         first + MaxIdorPaths - 1),
                     responses |-> <<>>])

NextIdor ==
    \/ \E out \in IdorOutcomes : IdorGoto(out)
    \/ IdorCompare

SpecIdor == InitIdor /\ [][NextIdor]_vars

-----------------------------------------------------------------------------
(* The JWT algorithm test *)

\* the values in localStorage and in the cookies together
MaxStored == 2

\* a JavaScript string value, as its pieces
Str(chars) == [type |-> "string", chars |-> chars]

NoValue == [type |-> "undefined", chars |-> <<>>]

\* the text of a header {"alg": v}, as the tokens JSON.parse reads
HeaderText(v) == <<"{", "\"alg\":", v, "}">>

\* the decoded texts of the first parts of the stored values: headers with an
\* alg, with a number as alg, without alg, and a text that ends too early
HeaderTexts ==
    {HeaderText(Str(a)) :
        a \in {<<"none">>, <<"None">>, <<"HS", "256">>, <<"HS", "384">>,
               <<"HS", "512">>, <<"HS", "1">>, <<"RS", "256">>,
               <<"ES", "256">>, <<"PS", "384">>, <<"Ed", "DSA">>}}
    \cup {HeaderText([type |-> "number", chars |-> <<"5">>]),
          <<"{", "\"typ\":", Str(<<"JWT">>), "}">>,
          <<"{", "\"alg\":">>}

\* a part of a value between two dots: whether it is eyJ followed by base64url
\* characters, and the text Buffer.from(part, 'base64url').toString() gives
Part(eyJ, text) == [eyJ |-> eyJ, text |-> text]

\* a three-part token with the header text, the same with one part more, and
\* a value that is no token
StoredValues ==
    {<<Part(TRUE, t), Part(TRUE, <<"{", "}">>), Part(FALSE, <<>>)>> :
        t \in HeaderTexts}
    \cup {<<Part(TRUE, HeaderText(Str(<<"none">>))), Part(TRUE, <<"{", "}">>),
            Part(FALSE, <<>>), Part(FALSE, <<>>)>>,
          <<Part(FALSE, <<>>)>>}

\* jwtPattern.test(value): two eyJ parts, one after the other, and a dot
\* after the second
jwtPattern(value) ==
    \E i \in 1..(Len(value) - 2) : value[i].eyJ /\ value[i + 1].eyJ

\* JSON.parse of the text of a header: the object, or the exception
JSONparse(text) ==
    IF Len(text) = 4 /\ text[1] = "{" /\ text[4] = "}"
    THEN [threw |-> FALSE,
          alg |-> IF text[2] = "\"alg\":" THEN text[3] ELSE NoValue]
    ELSE [threw |-> TRUE, alg |-> NoValue]

\* header.alg && ...
algTruthy(alg) == alg.type # "undefined" /\ alg.chars # <<>>

JwtFinding(severity, title, alg) ==
    [severity |-> severity, title |-> title, url |-> <<"/">>,
     payload |-> <<>>, cwe |-> IF severity = "critical" THEN "CWE-327"
                               ELSE "",
     evidence |-> alg.chars]

\* the three checks on a parsed header; the third calls startsWith, which only
\* strings have, so that another truthy alg throws after the first two checks
JwtHeaderFindings(alg) ==
    (IF alg = Str(<<"none">>)
     THEN <<JwtFinding("critical", "JWT None Algorithm Vulnerability", alg)>>
     ELSE <<>>)
    \o (IF alg \in {Str(<<"HS", "256">>), Str(<<"HS", "384">>),
                    Str(<<"HS", "512">>)}
        THEN <<JwtFinding("info", "JWT Uses HMAC Algorithm", alg)>>
        ELSE <<>>)
    \o (IF /\ algTruthy(alg)
           /\ alg.type = "string"
           /\ \/ startsWith(alg.chars, "RS")
              \/ startsWith(alg.chars, "ES")
              \/ startsWith(alg.chars, "PS")
        THEN <<JwtFinding("low", "JWT Asymmetric Algorithm", alg)>>
        ELSE <<>>)

\* whether the body of the try block throws for the value
JwtThrows(value) ==
    /\ Len(value) = 3
    /\ LET header == JSONparse(value[1].text)
       IN  \/ header.threw
           \/ algTruthy(header.alg) /\ header.alg.type # "string"

\* the body of the try block for one value
JwtValueFindings(value) ==
    IF Len(value) = 3
    THEN LET header == JSONparse(value[1].text)
         IN  IF header.threw THEN <<>> ELSE JwtHeaderFindings(header.alg)
    ELSE <<>>

\* a loop inside the try block: the first exception ends it
RECURSIVE JwtLoop_tryAround(_)
JwtLoop_tryAround(potentialJwts) ==
    IF potentialJwts = <<>> THEN <<>>
    ELSE IF JwtThrows(Head(potentialJwts).value)
    THEN <<JwtValueFindings(Head(potentialJwts).value)>>
    ELSE <<JwtValueFindings(Head(potentialJwts).value)>>
         \o JwtLoop_tryAround(Tail(potentialJwts))

\* for (const { source, value } of potentialJwts) { try { ... } catch }:
\* what each value adds
RECURSIVE JwtLoop(_)
JwtLoop(potentialJwts) ==
    IF potentialJwts = <<>> THEN <<>>
    ELSE <<JwtValueFindings(Head(potentialJwts).value)>>
         \o JwtLoop(Tail(potentialJwts))

\* the values of localStorage, then the values of the cookies, that match
potentialJwts(localStorage, cookies) ==
    SelectSeq([i \in DOMAIN localStorage |->
                  [source |-> "localStorage", value |-> localStorage[i]]],
              LAMBDA j : jwtPattern(j.value))
    \o SelectSeq([i \in DOMAIN cookies |->
                     [source |-> "cookie", value |-> cookies[i]]],
                 LAMBDA j : jwtPattern(j.value))

\* the test, from page.goto('/') to the end of the loop
JwtAlgorithmTest ==
    /\ pc = "jwt"
    /\ LET potential == potentialJwts(page.localStorage, page.cookies)
           added == JwtLoop(potential)
       IN  /\ last' = [kind |-> "jwt", potential |-> potential,
                       added |-> added, before |-> Len(findings)]
           /\ AddFromProbe(Flatten(added))
    /\ requests' = Append(requests, <<"/">>)
    /\ pc' = "done"
    /\ UNCHANGED <<fileExists, mtimeMs, now, skipAuth, gate, gateIn, gateEvals,
                   urlIdx, payIdx, hits>>
    /\ UNCHANGED <<step, page, inflight, burst, cliVars>>

\* the sequences of stored values up to a length
StoredSeqs(n) == UNION {[1..k -> StoredValues] : k \in 0..n}

InitJwt ==
    \E l \in StoredSeqs(MaxStored), c \in StoredSeqs(MaxStored) :
        /\ Len(l) + Len(c) <= MaxStored
        /\ InitProbeOn("jwt", [localStorage |-> l, cookies |-> c])

NextJwt == JwtAlgorithmTest

SpecJwt == InitJwt /\ [][NextJwt]_vars

-----------------------------------------------------------------------------
(* fetch-repos: the origin URL of the repositories *)

\* the repositories the environment names
MaxRepos == 2

\* the directories under SOURCE_CODE_PATH, in the order of the calls
RepoNames == SubSeq(<<"repo-frontend", "repo-api", "repo-shared", "repo-4">>,
                    1, MaxRepos)

\* a URL as its scheme, its user information and the rest
Url(scheme, userinfo, rest) ==
    [scheme |-> scheme, userinfo |-> userinfo, rest |-> rest]

\* REPO_FRONTEND, REPO_API, REPO_SHARED and the first of REPO_URLS
RepoUrl(name) ==
    IF name = "repo-api" THEN Url("http://", <<>>, "git.local/api.git")
    ELSE Url("https://", <<>>, "dev.azure.com/org/" \o name)

\* [uri]::EscapeDataString on the passwords of the model
EscapeDataString(password) ==
    IF password = "p@t" THEN "p%40t" ELSE password

\* sed "s|https://|https://${REPO_USERNAME}:${REPO_PASSWORD}@|" and
\* -replace "https://", "https://${AUTH_USERNAME}:...@": a URL with another
\* scheme stays as it is
WithCredentials(run, url, auth) ==
    IF url.scheme = "https://"
    THEN [url EXCEPT !.userinfo =
             <<auth.username,
               IF run = "ps1" THEN EscapeDataString(auth.password)
               ELSE auth.password>>]
    ELSE url

\* no directory of that name
NoDir == Url("", <<>>, "")

\* the answers to the two prompts
Credentials ==
    {[on |-> ~(u = "" /\ p = ""), username |-> u, password |-> p] :
        u \in {"", "user"}, p \in {"", "p@t"}}

\* the origin of an existing repository after the update branch:
\* git remote set-url origin "$clone_url" under REPO_AUTH, and nothing after
OriginAfterUpdate(auth, cloneUrl, url, origin) ==
    IF auth.on THEN cloneUrl ELSE origin

\* fetch_repo / Invoke-FetchRepo for the next repository.  A git command that
\* fails ends the shell script (set -e) unless it is followed by || true; in
\* the PowerShell script git's status is not looked at, and a failed clone
\* makes Push-Location throw.
FetchRepo(cloneOk, fetchOk) ==
    /\ pc = "fetch"
    /\ LET name == RepoNames[urlIdx]
           url == RepoUrl(name)
           cloneUrl == IF repos.auth.on
                       THEN WithCredentials(runner, url, repos.auth)
                       ELSE url
           existed == repos.origin[name] # NoDir
           finished == IF existed THEN fetchOk \/ runner = "ps1" ELSE cloneOk
       IN  /\ requests' = Append(requests,
                                 <<IF existed THEN "fetch" ELSE "clone",
                                   cloneUrl>>)
           /\ repos' = [repos EXCEPT !.origin[name] =
                  IF existed
                  THEN OriginAfterUpdate(repos.auth, cloneUrl, url, @)
                  ELSE IF cloneOk THEN url ELSE NoDir]
           /\ last' = [kind |-> "fetch", name |-> name, existed |-> existed,
                       finished |-> finished]
           /\ IF finished
              THEN /\ pc' = IF urlIdx = Len(RepoNames) THEN "fetch-done"
                            ELSE "fetch"
                   /\ urlIdx' = urlIdx + 1
                   /\ exit' = IF urlIdx = Len(RepoNames)
                              THEN [exit EXCEPT !.status = 0]
                              ELSE exit
              ELSE /\ pc' = "fetch-exited"
                   /\ urlIdx' = urlIdx
                   /\ exit' = [exit EXCEPT
                                  !.status = IF runner = "sh" THEN 128 ELSE 1]
    /\ UNCHANGED <<reporterVars, fileExists, mtimeMs, now, skipAuth, gate,
                   gateIn, gateEvals, payIdx, hits>>
    /\ UNCHANGED <<step, page, inflight, burst, runner, authCmd, zap>>

InitFetch ==
    /\ InitReporter
    /\ fileExists = FALSE
    /\ mtimeMs = 0
    /\ now = 0
    /\ skipAuth = FALSE
    /\ pc = "fetch"
    /\ gate = "none"
    /\ gateIn = [exists |-> FALSE, age |-> 0]
    /\ gateEvals = 0
    /\ urlIdx = 1
    /\ payIdx = 1
    /\ requests = <<>>
    /\ hits = <<>>
    /\ InitNoProbe
    /\ runner \in Runners
    /\ exit = NoExit
    /\ authCmd = "none"
    /\ zap = NoZap
    /\ \E auth \in Credentials, there \in SUBSET Range(RepoNames) :
          repos = [auth |-> auth,
                   origin |-> [name \in Range(RepoNames) |->
                                  IF name \in there THEN RepoUrl(name)
                                  ELSE NoDir]]

NextFetch == \E cloneOk \in BOOLEAN, fetchOk \in BOOLEAN :
                 FetchRepo(cloneOk, fetchOk)

SpecFetch == InitFetch /\ [][NextFetch]_vars

-----------------------------------------------------------------------------
(* Properties of the reporter *)

\* the positions of this.findings whose Finding has severity S
IndicesOf(S) == {i \in DOMAIN findings : heap[findings[i]].severity = S}

\* how many of those positions are at or before position i
RankIn(S, i) == Cardinality({j \in IndicesOf(S) : j <= i})

\* res holds the entries of getFindings() of severity S, all of them, in order
IsSeverityView(res, S) ==
    /\ Len(res) = Cardinality(IndicesOf(S))
    /\ \A i \in IndicesOf(S) : res[RankIn(S, i)] = getFindings[i]

\* a sequence as a bag: each element with the number of its occurrences
SeqBag(s) == [x \in Range(s) |-> Cardinality({i \in DOMAIN s : s[i] = x})]

\* C1: for every severity S getFindingsBySeverity(S) is exactly the entries of
\* getFindings() of severity S in the same relative order, and the five results
\* together hold every entry of getFindings() exactly as often as it holds it.
C1_SeverityPartition ==
    /\ \A S \in Severity : IsSeverityView(getFindingsBySeverity(S), S)
    /\ ret.op = "getFindingsBySeverity" => IsSeverityView(ret.arr, ret.sev)
    /\ SeqBag(getFindingsBySeverity("critical"))
         (+) SeqBag(getFindingsBySeverity("high"))
         (+) SeqBag(getFindingsBySeverity("medium"))
         (+) SeqBag(getFindingsBySeverity("low"))
         (+) SeqBag(getFindingsBySeverity("info")) = SeqBag(getFindings)

\* getFindingsBySeverity returned two entries that another severity separates
\* in getFindings(), one of them stored twice
C1_Witness ==
    /\ ret.op = "getFindingsBySeverity"
    /\ Len(ret.arr) = 2
    /\ Len(findings) = 3
    /\ heap[findings[2]].severity # ret.sev
    /\ findings[1] = findings[3]

\* the label generateSummary prints for each severity
SummaryLabel ==
    [critical |-> "Critical", high |-> "High", medium |-> "Medium",
     low |-> "Low", info |-> "Info"]

\* C2: the summary lists critical, high, medium, low, info in that order, each
\* with the number of entries getFindingsBySeverity gives for it, then Total,
\* which is getFindings().length and the sum of the five counts.
C2_SummaryCounts ==
    ret.op = "generateSummary" =>
        LET s == ret.summary IN
        /\ Len(s) = 6
        /\ \A k \in 1..5 :
              /\ s[k].label = SummaryLabel[Severities[k]]
              /\ s[k].count = Len(getFindingsBySeverity(Severities[k]))
              /\ s[k].count = Cardinality(IndicesOf(Severities[k]))
        /\ s[6].label = "Total"
        /\ s[6].count = Len(getFindings)
        /\ s[6].count = s[1].count + s[2].count + s[3].count + s[4].count
                          + s[5].count

\* a summary of three findings with different counts for medium and low
C2_Witness ==
    /\ ret.op = "generateSummary"
    /\ ret.summary[6].count = 3
    /\ ret.summary[3].count = 2
    /\ ret.summary[4].count = 1

\* C3: hasFindings() is true exactly if getFindings().length > 0, in every
\* state, the initial one included.
C3_HasFindingsIffNonEmpty ==
    /\ hasFindings <=> Len(getFindings) > 0
    /\ ret.op = "hasFindings" => (ret.bool <=> Len(getFindings) > 0)

\* hasFindings() answered true for a collection of one entry
C3_Witness ==
    /\ ret.op = "hasFindings"
    /\ ret.bool
    /\ Len(findings) = 1

\* C4: addFinding appends its argument, and only it, at the end of the
\* collection, also if an identical Finding is stored already; no other call
\* changes the collection, so it stays in insertion order.
C4_AddFindingAppends ==
    [][/\ ret'.op = "addFinding" =>
            /\ findings' = Append(findings, ret'.arg)
            /\ Deref(findings)' = Append(Deref(findings), heap'[ret'.arg])
       /\ ret'.op # "addFinding" => Deref(findings)' = Deref(findings)]_vars

\* addFinding stored an object a second time, behind a less severe one
C4_Witness ==
    /\ ret.op = "addFinding"
    /\ Len(findings) = 3
    /\ findings[3] = findings[1]
    /\ heap[findings[1]].severity = "critical"
    /\ heap[findings[2]].severity = "low"

\* C5: a getFindings() that follows another with no addFinding in between,
\* whatever queries ran in between, returns the same Findings in the same order.
C5_GetFindingsIdempotent ==
    [][(ret'.op = "getFindings" /\ hist # "dirty") =>
           DerefIn(heap', ret'.arr) = lastGet]_vars

\* the second of two getFindings() calls with a query between them
C5_Witness ==
    /\ hist = "gotQgot"
    /\ ret.op = "getFindings"
    /\ Len(ret.arr) = 2

\* s is an initial part of t
IsPrefix(s, t) == Len(s) <= Len(t) /\ SubSeq(t, 1, Len(s)) = s

\* C6: the collection only grows: across every call on the reporter the
\* sequence held before is a prefix of the sequence held after.
C6_OnlyGrows ==
    [][/\ IsPrefix(findings, findings')
       /\ IsPrefix(Deref(findings), Deref(findings)')]_vars

\* the collection reached its largest size and was queried afterwards
C6_Witness ==
    /\ Len(findings) = MaxFindings
    /\ hist = "gotQ"

\* C7: the views are read-only and a stored Finding is immutable: nothing the
\* caller does with a returned array or with a Finding object it passed to
\* addFinding changes what getFindings() returns afterwards.
C7_ViewsReadOnly ==
    [][hist' = "mutated" => Deref(getFindings)' = Deref(getFindings)]_vars

-----------------------------------------------------------------------------
(* Properties of the gate, the scan run and the path-traversal probe *)

\* C8: the gate gives absent (error 'No authentication found') without a file,
\* fresh (it passes) for a file younger than 60 minutes, and expired (error
\* 'Authentication expired') for a file of 60 minutes or more, 3,600,000 ms
\* included; 59 minutes is fresh and 61 minutes is expired.
C8_GateOutcome ==
    /\ gate # "none" =>
          /\ gateIn = [exists |-> fileExists, age |-> now - mtimeMs]
          /\ gate \in {"No authentication found", "passed",
                       "Authentication expired"}
          /\ gate = "No authentication found" <=> ~gateIn.exists
          /\ gate = "passed" <=> (gateIn.exists /\ gateIn.age < 3600000)
          /\ gate = "Authentication expired" <=>
                (gateIn.exists /\ gateIn.age >= 3600000)
    /\ AuthGate(TRUE, 59 * 60000) = "passed"
    /\ AuthGate(TRUE, 61 * 60000) = "Authentication expired"
    /\ AuthGate(TRUE, 3600000) = "Authentication expired"

\* the gate met a file of exactly 3,600,000 ms
C8_Witness ==
    /\ gate = "Authentication expired"
    /\ gateIn.exists
    /\ gateIn.age = 3600000

FindingsAt(u) == {j \in DOMAIN findings : heap[findings[j]].url = u}

\* the i-th URL the probe requests: base URL by base URL, payload by payload
NthTestUrl(i) ==
    LET n == Len(Slice(pathTraversalPayloads, 0, 5))
    IN  testUrls[((i - 1) \div n) + 1]
          \o encodeURIComponent(pathTraversalPayloads[((i - 1) % n) + 1])

\* C10: for every requested test URL (base URL + encoded payload) exactly one
\* critical CWE-22 Finding with that url is added if the response had status
\* 200 and a non-empty body matching at least one pattern, however many
\* patterns match, and none otherwise.
C10_OneFindingPerHit ==
    /\ \A i \in DOMAIN requests :
          /\ requests[i] = NthTestUrl(i)
          /\ Cardinality(FindingsAt(requests[i])) =
                IF \E h \in Range(hits) : h.url = requests[i] THEN 1 ELSE 0
    /\ Len(findings) = Len(hits)
    /\ \A j \in DOMAIN findings :
          /\ heap[findings[j]].severity = "critical"
          /\ heap[findings[j]].cwe = "CWE-22"
          /\ heap[findings[j]].url = hits[j].url

\* the probe finished; a body matching two patterns gave one Finding for the
\* first URL, and the last request gave none
C10_Witness ==
    /\ pc = "done"
    /\ Len(hits) = 1
    /\ hits[1].matches = {1, 2}
    /\ hits[1].url = <<"/?file=", "..", "%2F", "..", "%2F", "etc", "%2F",
                       "passwd">>
    /\ Cardinality(FindingsAt(hits[1].url)) = 1

-----------------------------------------------------------------------------
(* Properties of the CORS probe *)

\* the Findings the last pass added to the reporter, in order
AddedByLast ==
    [i \in 1..(Len(findings) - last.before) |->
        heap[findings[last.before + i]]]

\* C11: every response whose Access-Control-Allow-Origin is exactly '*' adds
\* exactly one Finding, of severity high and titled 'Overly Permissive CORS'
C11_WildcardOneFinding ==
    (last.kind = "cors" /\ last.resp.kind = "response"
        /\ last.resp.acao = <<"*">>)
    => /\ Len(AddedByLast) = 1
       /\ AddedByLast[1].severity = "high"
       /\ AddedByLast[1].title = "Overly Permissive CORS"

\* a wildcard response with credentials allowed, to the request that carried
\* the Origin null, after an earlier pass that added one Finding
C11_Witness ==
    /\ last.kind = "cors"
    /\ last.resp = [kind |-> "response", acao |-> <<"*">>,
                    acac |-> <<"true">>]
    /\ last.origin = <<"null">>
    /\ last.before = 1
    /\ Len(findings) = 2
    /\ heap[findings[2]].title = "Overly Permissive CORS"

-----------------------------------------------------------------------------
(* Properties of the cookie probe *)

\* the cookie lacks the Secure flag, the HttpOnly flag, a SameSite protection
LacksSecure(cookie) == ~cookie.secure
LacksHttpOnly(cookie) == ~cookie.httpOnly
LacksSameSite(cookie) == cookie.sameSite \in {undefined, <<"None">>}

\* The statement as first made: a cookie gets its one Finding iff it lacks at
\* least one of the three protections
C12_AnyMissingProtection ==
    last.kind = "cookie"
    => (Len(AddedByLast) = 1
        <=> (LacksSecure(last.cookie) \/ LacksHttpOnly(last.cookie)
             \/ LacksSameSite(last.cookie)))

\* the tokens of an evidence string that name an issue
IssuesIn(evidence) == Range(evidence) \ {"; "}

\* C12: each cookie yields at most one Finding. It is added iff at least one
\* of these holds: the Secure flag is off and the page is served over https;
\* the HttpOnly flag is off and the lower-cased name contains session, token
\* or auth; SameSite is absent or None. The Finding is medium and its evidence
\* lists exactly the checks that fired, each once; for session_id with all
\* three protections off on an https page it lists all three.
C12_CookieFinding ==
    last.kind = "cookie"
    => LET c == last.cookie
           noSecure == LacksSecure(c) /\ page[1] = "https://"
           noHttpOnly ==
               LacksHttpOnly(c)
               /\ \E t \in Range(c.name) :
                      t \in {"session", "Session", "token", "Token", "auth",
                             "AUTH"}
           noSameSite == LacksSameSite(c)
           fired == (IF noSecure THEN {"Missing Secure flag"} ELSE {})
                    \cup (IF noHttpOnly
                          THEN {"Missing HttpOnly flag on sensitive cookie"}
                          ELSE {})
                    \cup (IF noSameSite
                          THEN {"Missing or lax SameSite attribute"}
                          ELSE {})
       IN  /\ Len(AddedByLast) = IF fired = {} THEN 0 ELSE 1
           /\ fired # {}
              => /\ AddedByLast[1].severity = "medium"
                 /\ IssuesIn(AddedByLast[1].evidence) = fired
                 /\ Len(AddedByLast[1].evidence) = 2 * Cardinality(fired) - 1
           /\ (c = [name |-> <<"session", "_id">>, secure |-> FALSE,
                    httpOnly |-> FALSE, sameSite |-> <<"None">>]
               /\ page[1] = "https://")
              => AddedByLast[1].evidence =
                     <<"Missing Secure flag", "; ",
                       "Missing HttpOnly flag on sensitive cookie", "; ",
                       "Missing or lax SameSite attribute">>

\* the scenario: session_id with the three protections off, on an https page,
\* as the second cookie of the jar, after a cookie that gave no Finding
C12_Witness ==
    /\ last.kind = "cookie"
    /\ last.cookie = [name |-> <<"session", "_id">>, secure |-> FALSE,
                      httpOnly |-> FALSE, sameSite |-> <<"None">>]
    /\ page[1] = "https://"
    /\ step = 2
    /\ last.before = 0
    /\ Len(findings) = 1

-----------------------------------------------------------------------------
(* Error handling of the probes *)

\* C13: a navigation that fails (timeout, refused connection) is caught and
\* discarded: it adds no Finding and the probe goes on to what it had left to
\* do, here the inspection of the cookies
C13_FailureContained ==
    (last.kind = "goto" /\ ~last.ok)
    => /\ Len(findings) = last.before
       /\ pc = "cookie-loop"

\* C14: a request that ends in its timeout is inconclusive: the attempt adds
\* no Finding, is sent once, and the probe moves on
C14_TimeoutInconclusive ==
    (last.kind = "timing" /\ last.out.kind = "timeout")
    => /\ Len(findings) = last.before
       /\ \A i, j \in DOMAIN requests : requests[i] = requests[j] => i = j

-----------------------------------------------------------------------------
(* Properties of the race probes *)

\* C15: once the burst of an endpoint is over, the endpoint has exactly one
\* Finding if more than one request of the burst completed with status 200,
\* and none otherwise
C15_RaceOracle ==
    last.kind = "burst"
    => Len(AddedByLast) = IF last.ok > 1 THEN 1 ELSE 0

\* C16: inside a race probe all requests in flight target a single endpoint
\* and number at most the burst size
C16_OneBurstInFlight ==
    pc \in {"race", "race-await", "done"} /\ burst.test \in RaceTests
    => /\ InflightTotal <= BurstSize(burst.test)
       /\ \A e1, e2 \in DOMAIN inflight :
              inflight[e1] > 0 /\ inflight[e2] > 0 => e1 = e2

-----------------------------------------------------------------------------
(* Properties of a whole scan *)

\* Finding f is in the emitted report: a test attached it, or a line a test
\* wrote to stdout names it
Emitted(f) ==
    \E t \in DOMAIN exit.report :
        \/ \E a \in DOMAIN exit.report[t].attachments :
               exit.report[t].attachments[a] = f
        \/ \E l \in DOMAIN exit.report[t].stdout :
               exit.report[t].stdout[l] = f.title

\* C17: when a scan has run to completion and its output is written, every
\* Finding handed to the reporter is in that output
C17_FindingsEmitted ==
    (pc = "done" /\ exit # NoExit)
    => \A i \in DOMAIN findings : Emitted(heap[findings[i]])

C19_SkipAuthRunsProbes ==
    (skipAuth /\ gate # "none") => pc \in {"dast", "done"}

-----------------------------------------------------------------------------
(* Properties of the auth command *)

\* C20: the auth command and the gate agree at every age of the snapshot.
\* When the command has just made its check, it reuses the snapshot iff the
\* gate, given the same reading, passes, and it goes on to a new capture iff
\* the gate reports the snapshot absent or expired; a reuse leaves the file
\* as it is.
C20_AuthAgreesWithGate ==
    /\ [](authCmd = "reused" => gate = "passed")
    /\ [](authCmd = "capturing"
          => gate \in {"No authentication found", "Authentication expired"})
    /\ [][authCmd' = "reused" => UNCHANGED <<fileExists, mtimeMs>>]_vars

\* the command found a snapshot aged exactly one hour and opened the browser
C20_Witness ==
    /\ authCmd = "capturing"
    /\ gateIn = [exists |-> TRUE, age |-> authExpiryMs]
    /\ gate = "Authentication expired"

\* C21: the status command reports what the gate would report: success only
\* for a snapshot the gate passes, a problem for an absent or expired one
C21_StatusAgreesWithGate ==
    last.kind = "status" => (last.res.status = 0 <=> gate = "passed")

-----------------------------------------------------------------------------
(* Properties of the ZAP runner *)

\* the requests that start or feed a scan, or fetch a report
ScanRequests ==
    {"spider/action/scan", "ajaxSpider/action/scan", "ascan/action/scan",
     "openapi/action/importUrl", "core/other/htmlreport", "core/view/alerts"}

\* C22: if ZAP is not reachable when a scan command starts, the runner prints
\* the remediation hint and exits with a non-zero status, having issued no
\* spider, AJAX-spider, active-scan, import or report request
C22_UnreachableStopsRun ==
    (last.kind = "zap-check" /\ ~last.reachable)
    => /\ pc = "zap-exited"
       /\ exit.status > 0
       /\ \E i \in DOMAIN exit.printed :
              exit.printed[i] = "Start ZAP with: docker-compose up -d zap"
       /\ \A i \in DOMAIN requests : requests[i] \notin ScanRequests

\* the PowerShell runner found ZAP unreachable on the api command
C22_Witness ==
    /\ last.kind = "zap-check"
    /\ ~last.reachable
    /\ runner = "ps1"
    /\ zap.cmd = "api"
    /\ exit.status = 1
    /\ requests = <<"core/view/version">>

\* C23: each polling loop of a full scan ends as soon as ZAP reports its
\* completion value; here the loop of the AJAX spider, once ZAP has answered
\* {"status":"stopped"}
C23_AjaxLoopEnds ==
    (last.kind = "zap-poll" /\ last.stage = "ajax"
        /\ last.body = Json("\"status\":", "stopped", TRUE))
    => pc # "zap-ajax-poll"

\* request r has been issued
Requested(r) == \E i \in DOMAIN requests : requests[i] = r

\* C27: in quick and full scans the active scan is started only if the spider
\* was started and reported 100, and the report is fetched only if the active
\* scan was started and reported 100
C27_StagesInOrder ==
    zap.cmd \in {"quick", "full"}
    => /\ Requested("ascan/action/scan")
          => {<<"spider", "started">>, <<"spider", "complete">>}
                 \subseteq zap.reached
       /\ Requested("core/other/htmlreport")
          => {<<"ascan", "started">>, <<"ascan", "complete">>}
                 \subseteq zap.reached

-----------------------------------------------------------------------------
(* Properties of the timing probe *)

\* C24: each (endpoint, payload) pair gets exactly one request, with no other
\* request before it, and the pass adds exactly one high Finding iff the
\* measured time is at least 4500 ms, none below
C24_TimingOracle ==
    last.kind = "timing"
    => /\ Len(AddedByLast) = IF last.out.elapsed >= 4500 THEN 1 ELSE 0
       /\ \A i \in DOMAIN AddedByLast : AddedByLast[i].severity = "high"
       /\ Len(requests)
              = (urlIdx - 1) * Len(timingPayloads) + (payIdx - 1)
       /\ requests[Len(requests)] = <<last.endpoint, last.payload>>
       /\ \A i, j \in DOMAIN requests : requests[i] = requests[j] => i = j

\* a response after exactly 4500 ms to the second payload, after a fast one
C24_Witness ==
    /\ last.kind = "timing"
    /\ last.out = [kind |-> "response", elapsed |-> 4500]
    /\ Len(requests) = 2
    /\ last.before = 0
    /\ Len(findings) = 1

-----------------------------------------------------------------------------
(* Order of completion in the race probes *)

\* the Findings the reporter holds for the endpoint at position e
RaceFindingsFor(e) ==
    {i \in DOMAIN findings :
        heap[findings[i]].url = raceEndpoints(burst.test)[e]}

\* C25: the verdict for an endpoint is a function of the outcomes of its
\* burst as a multiset: once every request of the burst has ended, in whatever
\* order, the endpoint has one Finding if none failed and more than one was
\* answered 200, and none otherwise
C25_VerdictIgnoresOrder ==
    \A e \in DOMAIN inflight :
        (hits[e].ok + hits[e].other + hits[e].failed = BurstSize(burst.test)
         /\ burst.test \in RaceTests)
        => Cardinality(RaceFindingsFor(e))
               = IF hits[e].failed = 0 /\ hits[e].ok > 1 THEN 1 ELSE 0

\* the TOCTOU burst of the first endpoint ended 200, failure, 200, and the
\* second burst was answered 409, 200, 200
C25_Witness ==
    /\ burst.test = "toctou"
    /\ hits[1] = [ok |-> 2, other |-> 0, failed |-> 1]
    /\ hits[2] = [ok |-> 2, other |-> 1, failed |-> 0]
    /\ Cardinality(RaceFindingsFor(1)) = 0
    /\ Cardinality(RaceFindingsFor(2)) = 1

-----------------------------------------------------------------------------
(* Properties of the similarity and of the IDOR probe *)

\* C30: calculateSimilarity(a, b) is between 0 and 1 inclusive, is 1 when
\* a = b (both empty included), is 0 when exactly one of them is empty, and
\* is the same with the arguments exchanged
C30_SimilarityIsRatio ==
    last.kind = "similarity" =>
        /\ ~Greater(Ratio(0, 1), last.res)
        /\ ~Greater(last.res, Ratio(1, 1))
        /\ last.res.den > 0
        /\ (last.str1 = last.str2 => SameRatio(last.res, Ratio(1, 1)))
        /\ ((last.str1 = <<>>) # (last.str2 = <<>>)
            => SameRatio(last.res, Ratio(0, 1)))
        /\ last.swapped.den > 0
        /\ SameRatio(last.res, last.swapped)

\* the similarity of two different strings of different lengths, neither
\* inside the other, was computed in both directions
C30_Witness ==
    /\ last.kind = "similarity"
    /\ last.str1 = <<"a", "b">>
    /\ last.str2 = <<"a", "a", "b">>
    /\ last.res = Ratio(2, 3)

\* the responses recorded for the paths with /users/, /profile/ or /account/
IdorUserResponses == {r \in Range(page.responses) : isUserPath(r.path)}

\* the visits of the loops to the two paths, in either order
IdorVisits(p, q) ==
    {k \in DOMAIN last.visited :
        {last.visited[k].path1, last.visited[k].path2} = {p, q}}

\* C26: the loops visit every unordered pair of distinct fetched user paths
\* exactly once and nothing else; a pair adds one high-severity Finding iff
\* both statuses are 200 and the similarity is strictly greater than 0.9,
\* and no other Finding is added
C26_IdorOracle ==
    last.kind = "idor" =>
        /\ \A r1 \in IdorUserResponses, r2 \in IdorUserResponses :
              r1.path # r2.path =>
                  /\ Cardinality(IdorVisits(r1.path, r2.path)) = 1
                  /\ Cardinality({i \in DOMAIN AddedByLast :
                         AddedByLast[i].url \in {<<r1.path, "vs", r2.path>>,
                                                 <<r2.path, "vs", r1.path>>}})
                       = IF /\ r1.status = 200
                            /\ r2.status = 200
                            /\ Greater(calculateSimilarity(r1.body, r2.body),
                                       similarityCutoff)
                         THEN 1 ELSE 0
        /\ \A k \in DOMAIN last.visited :
              \E r1 \in IdorUserResponses, r2 \in IdorUserResponses :
                  /\ r1.path # r2.path
                  /\ last.visited[k].path1 = r1.path
                  /\ last.visited[k].path2 = r2.path
        /\ \A i \in DOMAIN AddedByLast :
              /\ AddedByLast[i].severity = "high"
              /\ \E r1 \in IdorUserResponses, r2 \in IdorUserResponses :
                    /\ r1.path # r2.path
                    /\ AddedByLast[i].url = <<r1.path, "vs", r2.path>>

\* /account/1 and /account/2 were answered 200 with bodies of 10 and 11 equal
\* characters, /orders/1 was answered 200 with the body of /account/1, and the
\* only Finding is the one of the two account paths
C26_Witness ==
    /\ last.kind = "idor"
    /\ page.responses =
          << [path |-> <<"account", "1">>, status |-> 200,
              body |-> Chars(10, "a")],
             [path |-> <<"account", "2">>, status |-> 200,
              body |-> Chars(11, "a")],
             [path |-> <<"orders", "1">>, status |-> 200,
              body |-> Chars(10, "a")] >>
    /\ Len(AddedByLast) = 1
    /\ AddedByLast[1].url = <<<<"account", "1">>, "vs", <<"account", "2">>>>

-----------------------------------------------------------------------------
(* Properties of the JWT algorithm test *)

\* the stored values of the page that are JWT-shaped, localStorage first
JwtShaped ==
    SelectSeq(page.localStorage \o page.cookies, jwtPattern)

\* the severity the claim gives an alg, "" for none
JwtSeverityOf(alg) ==
    IF alg = Str(<<"none">>) THEN "critical"
    ELSE IF alg \in {Str(<<"HS", "256">>), Str(<<"HS", "384">>),
                     Str(<<"HS", "512">>)} THEN "info"
    ELSE IF alg.type = "string" /\ Len(alg.chars) > 0
            /\ alg.chars[1] \in {"RS", "ES", "PS"} THEN "low"
    ELSE ""

\* C28: every JWT-shaped stored value is checked, whatever the values before
\* it did; one with three parts and a header that parses adds exactly one
\* Finding when its alg is none (critical, JWT None Algorithm Vulnerability),
\* HS256, HS384 or HS512 (info), or starts with RS, ES or PS (low), and none
\* for another alg; one whose header does not parse adds none
C28_JwtAlgOracle ==
    last.kind = "jwt" =>
        /\ Len(last.added) = Len(JwtShaped)
        /\ AddedByLast = Flatten(last.added)
        /\ \A k \in DOMAIN JwtShaped :
              LET value == JwtShaped[k]
                  header == JSONparse(value[1].text)
                  added == last.added[k]
              IN  /\ last.potential[k].value = value
                  /\ (Len(value) = 3 /\ ~header.threw) =>
                        IF JwtSeverityOf(header.alg) = "" THEN added = <<>>
                        ELSE /\ Len(added) = 1
                             /\ added[1].severity = JwtSeverityOf(header.alg)
                             /\ (header.alg = Str(<<"none">>) =>
                                    added[1].title
                                        = "JWT None Algorithm Vulnerability")
                  /\ (Len(value) = 3 /\ header.threw) => added = <<>>

\* a cookie whose header text ends too early added nothing, and the cookie
\* after it, a token with alg none, added its critical Finding
C28_Witness ==
    /\ last.kind = "jwt"
    /\ page.localStorage = <<>>
    /\ Len(page.cookies) = 2
    /\ page.cookies[1][1].text = <<"{", "\"alg\":">>
    /\ Len(page.cookies[2]) = 3
    /\ page.cookies[2][1].text = HeaderText(Str(<<"none">>))
    /\ Len(AddedByLast) = 1
    /\ AddedByLast[1].severity = "critical"

-----------------------------------------------------------------------------
(* Properties of fetch-repos *)

\* C29: after fetch_repo / Invoke-FetchRepo finished for a repository,
\* freshly cloned or updated, the origin URL in its configuration is the
\* configured URL, without the username and the password that were entered
C29_NoCredentialsLeft ==
    (last.kind = "fetch" /\ last.finished)
    => /\ repos.origin[last.name] = RepoUrl(last.name)
       /\ repos.origin[last.name].userinfo = <<>>

=============================================================================
